---------------------------- MODULE Spec2Model ----------------------------
(***************************************************************************)
(* AI Gym Coach backend: the pose formatter and the four feedback          *)
(* pipelines (prompt -> Model Gateway -> extraction -> parse ->            *)
(* normalisation -> HTTP response) of backend/app.py, which                *)
(* backend/analyzers/pose_analyzer.py and backend/routes/analysis_routes.py*)
(* repeat line for line.                                                   *)
(*                                                                         *)
(* Python strings are sequences of one-character strings, indexed from 0   *)
(* as in Python (character i of s is s[i+1]).  Confidences are in          *)
(* hundredths (0.5 is 50).                                                 *)
(***************************************************************************)
EXTENDS Integers, Sequences, FiniteSets, TLC

---------------------------------------------------------------------------
(* Python str primitives                                                   *)

\* string.whitespace characters that occur in the modelled texts
WS == {" ", "\n"}

Min(S) == CHOOSE x \in S : \A y \in S : x <= y

Max(S) == CHOOSE x \in S : \A y \in S : x >= y

\* s[i:i+len(sub)] == sub
OccursAt(s, sub, i) ==
    /\ i >= 0
    /\ i + Len(sub) <= Len(s)
    /\ \A k \in 1..Len(sub) : s[i + k] = sub[k]

\* the indices >= start where sub occurs
Occurrences(s, sub, start) ==
    {i \in start..(Len(s) - Len(sub)) : OccursAt(s, sub, i)}

\* str.find(sub, start): lowest index >= start, -1 when there is none
Find(s, sub, start) ==
    IF Occurrences(s, sub, start) = {} THEN -1
    ELSE Min(Occurrences(s, sub, start))

\* RFind giving the lowest index, as str.find does
RFind_First(s, sub) ==
    IF Occurrences(s, sub, 0) = {} THEN -1
    ELSE Min(Occurrences(s, sub, 0))

\* str.rfind(sub): highest index, -1 when there is none
RFind(s, sub) ==
    IF Occurrences(s, sub, 0) = {} THEN -1
    ELSE Max(Occurrences(s, sub, 0))

\* sub in s
Contains(s, sub) == Find(s, sub, 0) # -1

\* one bound of a slice: negative counts from the end, then clamped
SliceIndex(s, i) ==
    IF i < 0 THEN (IF i + Len(s) < 0 THEN 0 ELSE i + Len(s))
    ELSE IF i > Len(s) THEN Len(s) ELSE i

\* s[a:b]
Slice(s, a, b) ==
    LET lo == SliceIndex(s, a)
        hi == SliceIndex(s, b)
    IN  IF lo >= hi THEN << >> ELSE SubSeq(s, lo + 1, hi)

\* Head_ one character short, s[:n-1]
Head_Short(s, n) == Slice(s, 0, n - 1)

\* s[:n]
Head_(s, n) == Slice(s, 0, n)

\* the number of whitespace characters s starts with, and ends with
Leading(s) ==
    CHOOSE n \in 0..Len(s) :
        /\ \A j \in 1..n : s[j] \in WS
        /\ n = Len(s) \/ s[n + 1] \notin WS

Trailing(s) ==
    CHOOSE n \in 0..Len(s) :
        /\ \A j \in 1..n : s[Len(s) - j + 1] \in WS
        /\ n = Len(s) \/ s[Len(s) - n] \notin WS

\* str.lstrip() and str.rstrip()
LStrip(s) == SubSeq(s, Leading(s) + 1, Len(s))

RStrip(s) == SubSeq(s, 1, Len(s) - Trailing(s))

\* str.strip()
Strip(s) == RStrip(LStrip(s))

---------------------------------------------------------------------------
(* JSON values and json.loads                                              *)
(*                                                                         *)
(* A Python value is a record [t, v]: t is its type and v its content.     *)
(* A dict is a function from keys (strings) to values.  The texts of the   *)
(* model hold no backslash, no '-', no '.', and no digit followed by 'e',  *)
(* so a string has no escapes and a number is a run of digits.             *)

JNull == [t |-> "null", v |-> << >>]

JBool(b) == [t |-> "bool", v |-> b]

JInt(n) == [t |-> "int", v |-> n]

JStr(s) == [t |-> "str", v |-> s]

JList(xs) == [t |-> "list", v |-> xs]

JDict(f) == [t |-> "dict", v |-> f]

EmptyDict == JDict(<< >>)

\* d[k] = x on a dict's content
DictPut(f, k, x) == [y \in (DOMAIN f) \cup {k} |-> IF y = k THEN x ELSE f[y]]

Digits == {"0", "1", "2", "3", "4", "5", "6", "7", "8", "9"}

DigitVal(c) ==
    CASE c = "0" -> 0 [] c = "1" -> 1 [] c = "2" -> 2 [] c = "3" -> 3
      [] c = "4" -> 4 [] c = "5" -> 5 [] c = "6" -> 6 [] c = "7" -> 7
      [] c = "8" -> 8 [] c = "9" -> 9

\* s[i:i+1]
At(s, i) == IF i >= 0 /\ i < Len(s) THEN s[i + 1] ELSE ""

\* WHITESPACE.match(s, i).end()
RECURSIVE SkipWS(_, _)
SkipWS(s, i) == IF i < Len(s) /\ s[i + 1] \in WS THEN SkipWS(s, i + 1) ELSE i

\* what a scan that raises JSONDecodeError returns
ScanFail == [ok |-> FALSE, val |-> JNull, end |-> 0]

ScanOk(x, e) == [ok |-> TRUE, val |-> x, end |-> e]

\* scanstring(s, i): i is the index after the opening quote
ScanString(s, i) ==
    LET j == Find(s, <<"\"">>, i)
    IN  IF j = -1 THEN ScanFail
        ELSE IF \E k \in i..(j - 1) : s[k + 1] = "\n" THEN ScanFail
        ELSE ScanOk(JStr(Slice(s, i, j)), j + 1)

RECURSIVE IntOf(_)
IntOf(ds) ==
    IF ds = << >> THEN 0
    ELSE 10 * IntOf(SubSeq(ds, 1, Len(ds) - 1)) + DigitVal(ds[Len(ds)])

\* NUMBER_RE at i, where s[i] is a digit: 0, or a run of digits
\* (DigitsEnd is where the run ends)
RECURSIVE DigitsEnd(_, _)
DigitsEnd(s, i) == IF At(s, i) \in Digits THEN DigitsEnd(s, i + 1) ELSE i

ScanNumber(s, i) ==
    IF s[i + 1] = "0" THEN ScanOk(JInt(0), i + 1)
    ELSE ScanOk(JInt(IntOf(Slice(s, i, DigitsEnd(s, i)))), DigitsEnd(s, i))

RECURSIVE ScanOnce(_, _), ObjectPairs(_, _, _), ArrayItems(_, _, _)

\* JSONObject's loop: i is the index after the opening quote of a key
ObjectPairs(s, i, acc) ==
    LET key == ScanString(s, i)
        c == SkipWS(s, key.end)
        val == ScanOnce(s, SkipWS(s, c + 1))
        d == SkipWS(s, val.end)
        acc2 == DictPut(acc, key.val.v, val.val)
        e == SkipWS(s, d + 1)
    IN  IF ~key.ok THEN ScanFail
        ELSE IF At(s, c) # ":" THEN ScanFail
        ELSE IF ~val.ok THEN ScanFail
        ELSE IF At(s, d) = "}" THEN ScanOk(JDict(acc2), d + 1)
        ELSE IF At(s, d) # "," THEN ScanFail
        ELSE IF At(s, e) # "\"" THEN ScanFail
        ELSE ObjectPairs(s, e + 1, acc2)

\* JSONObject(s, i): i is the index after '{'
ScanObject(s, i) ==
    LET j == SkipWS(s, i)
    IN  IF At(s, j) = "}" THEN ScanOk(EmptyDict, j + 1)
        ELSE IF At(s, j) # "\"" THEN ScanFail
        ELSE ObjectPairs(s, j + 1, << >>)

\* JSONArray's loop: i is the index of the next element
ArrayItems(s, i, acc) ==
    LET val == ScanOnce(s, i)
        d == SkipWS(s, val.end)
        acc2 == Append(acc, val.val)
    IN  IF ~val.ok THEN ScanFail
        ELSE IF At(s, d) = "]" THEN ScanOk(JList(acc2), d + 1)
        ELSE IF At(s, d) # "," THEN ScanFail
        ELSE ArrayItems(s, SkipWS(s, d + 1), acc2)

\* JSONArray(s, i): i is the index after '['
ScanArray(s, i) ==
    LET j == SkipWS(s, i)
    IN  IF At(s, j) = "]" THEN ScanOk(JList(<< >>), j + 1)
        ELSE ArrayItems(s, j, << >>)

\* scan_once(s, i)
ScanOnce(s, i) ==
    LET c == At(s, i)
    IN  IF c = "" THEN ScanFail
        ELSE IF c = "\"" THEN ScanString(s, i + 1)
        ELSE IF c = "{" THEN ScanObject(s, i + 1)
        ELSE IF c = "[" THEN ScanArray(s, i + 1)
        ELSE IF c = "n" /\ OccursAt(s, <<"n", "u", "l", "l">>, i)
             THEN ScanOk(JNull, i + 4)
        ELSE IF c = "t" /\ OccursAt(s, <<"t", "r", "u", "e">>, i)
             THEN ScanOk(JBool(TRUE), i + 4)
        ELSE IF c = "f" /\ OccursAt(s, <<"f", "a", "l", "s", "e">>, i)
             THEN ScanOk(JBool(FALSE), i + 5)
        ELSE IF c \in Digits THEN ScanNumber(s, i)
        ELSE ScanFail

\* json.loads(s): ok = FALSE stands for JSONDecodeError
Loads(s) ==
    LET r == ScanOnce(s, SkipWS(s, 0))
    IN  IF ~r.ok THEN [ok |-> FALSE, val |-> JNull]
        ELSE IF SkipWS(s, r.end) # Len(s) THEN [ok |-> FALSE, val |-> JNull]
        ELSE [ok |-> TRUE, val |-> r.val]

---------------------------------------------------------------------------
(* Field names and literals, as Python strings                             *)

\* the backtick character (a TLA+ string cannot hold one)
Tick == "tick"

\* the fence marker, and the json-tagged fence marker
Fence == <<Tick, Tick, Tick>>

JsonFence == Fence \o <<"j", "s", "o", "n">>

\* the six AnalysisResult fields
K_exercise_name ==
    <<"e", "x", "e", "r", "c", "i", "s", "e", "_", "n", "a", "m", "e">>

K_form_score ==
    <<"f", "o", "r", "m", "_", "s", "c", "o", "r", "e">>

K_issues ==
    <<"i", "s", "s", "u", "e", "s">>

K_corrections ==
    <<"c", "o", "r", "r", "e", "c", "t", "i", "o", "n", "s">>

K_positives ==
    <<"p", "o", "s", "i", "t", "i", "v", "e", "s">>

K_overall_feedback ==
    <<"o", "v", "e", "r", "a", "l", "l", "_", "f", "e", "e", "d", "b",
      "a", "c", "k">>

K_raw_response ==
    <<"r", "a", "w", "_", "r", "e", "s", "p", "o", "n", "s", "e">>

\* RealTimeFeedback, AngleAnalysis and IssueCoaching fields
K_critical_issues ==
    <<"c", "r", "i", "t", "i", "c", "a", "l", "_", "i", "s", "s", "u",
      "e", "s">>

K_immediate_action ==
    <<"i", "m", "m", "e", "d", "i", "a", "t", "e", "_", "a", "c", "t",
      "i", "o", "n">>

K_form_quality ==
    <<"f", "o", "r", "m", "_", "q", "u", "a", "l", "i", "t", "y">>

K_encouragement ==
    <<"e", "n", "c", "o", "u", "r", "a", "g", "e", "m", "e", "n", "t">>

K_quick_fix ==
    <<"q", "u", "i", "c", "k", "_", "f", "i", "x">>

K_why_it_matters ==
    <<"w", "h", "y", "_", "i", "t", "_", "m", "a", "t", "t", "e", "r", "s">>

K_cue ==
    <<"c", "u", "e">>

\* the literals of the fallback payloads
S_Unknown ==
    <<"U", "n", "k", "n", "o", "w", "n">>

S_UnableToParse ==
    <<"U", "n", "a", "b", "l", "e", " ", "t", "o", " ", "p", "a", "r",
      "s", "e", " ", "d", "e", "t", "a", "i", "l", "e", "d", " ", "a",
      "n", "a", "l", "y", "s", "i", "s">>

S_ReviewRaw ==
    <<"R", "e", "v", "i", "e", "w", " ", "t", "h", "e", " ", "r", "a",
      "w", " ", "f", "e", "e", "d", "b", "a", "c", "k", " ", "b", "e",
      "l", "o", "w">>

S_FormCheck ==
    <<"F", "o", "r", "m", " ", "c", "h", "e", "c", "k", " ", "i", "n",
      " ", "p", "r", "o", "g", "r", "e", "s", "s">>

S_needs_improvement ==
    <<"n", "e", "e", "d", "s", "_", "i", "m", "p", "r", "o", "v", "e",
      "m", "e", "n", "t">>

S_ReviewIssues ==
    <<"R", "e", "v", "i", "e", "w", " ", "t", "h", "e", " ", "d", "e",
      "t", "e", "c", "t", "e", "d", " ", "f", "o", "r", "m", " ", "i",
      "s", "s", "u", "e", "s">>

S_AdjustForm ==
    <<"A", "d", "j", "u", "s", "t", " ", "y", "o", "u", "r", " ", "f",
      "o", "r", "m", " ", "b", "a", "s", "e", "d", " ", "o", "n", " ",
      "t", "h", "e", " ", "d", "e", "t", "e", "c", "t", "e", "d", " ",
      "i", "s", "s", "u", "e">>

S_ProperForm ==
    <<"P", "r", "o", "p", "e", "r", " ", "f", "o", "r", "m", " ", "p",
      "r", "e", "v", "e", "n", "t", "s", " ", "i", "n", "j", "u", "r",
      "y", " ", "a", "n", "d", " ", "i", "m", "p", "r", "o", "v", "e",
      "s", " ", "r", "e", "s", "u", "l", "t", "s">>

---------------------------------------------------------------------------
(* Response extraction                                                     *)

\* the four-rule extraction of analyze_exercise_form and real_time_feedback;
\* t is response.text.strip()
ExtractCandidate(t) ==
    IF Contains(t, JsonFence)
    THEN LET json_start == Find(t, JsonFence, 0) + 7
             json_end == Find(t, Fence, json_start)
         IN  Strip(Slice(t, json_start, json_end))
    ELSE IF Contains(t, Fence)
    THEN LET json_start == Find(t, Fence, 0) + 3
             json_end == RFind(t, Fence)
         IN  Strip(Slice(t, json_start, json_end))
    ELSE IF Contains(t, <<"{">>) /\ Contains(t, <<"}">>)
    THEN LET json_start == Find(t, <<"{">>, 0)
             json_end == RFind(t, <<"}">>) + 1
         IN  Slice(t, json_start, json_end)
    ELSE t

\* ExtractCandidateNoTest with the brace span closed at the first '}' after
\* the first '{'
ExtractCandidateNoTest_NextBrace(t) ==
    IF Contains(t, JsonFence)
    THEN LET json_start == Find(t, JsonFence, 0) + 7
             json_end == Find(t, Fence, json_start)
         IN  Strip(Slice(t, json_start, json_end))
    ELSE IF Contains(t, Fence)
    THEN LET json_start == Find(t, Fence, 0) + 3
             json_end == RFind(t, Fence)
         IN  Strip(Slice(t, json_start, json_end))
    ELSE LET json_start == Find(t, <<"{">>, 0)
             json_end == Find(t, <<"}">>, json_start) + 1
         IN  Slice(t, json_start, json_end)

\* the three-rule extraction of analyze_angles and analyze_form_issue: the
\* brace span is taken without testing that the text holds '{' and '}'
ExtractCandidateNoTest(t) ==
    IF Contains(t, JsonFence)
    THEN LET json_start == Find(t, JsonFence, 0) + 7
             json_end == Find(t, Fence, json_start)
         IN  Strip(Slice(t, json_start, json_end))
    ELSE IF Contains(t, Fence)
    THEN LET json_start == Find(t, Fence, 0) + 3
             json_end == RFind(t, Fence)
         IN  Strip(Slice(t, json_start, json_end))
    ELSE LET json_start == Find(t, <<"{">>, 0)
             json_end == RFind(t, <<"}">>) + 1
         IN  Slice(t, json_start, json_end)

---------------------------------------------------------------------------
(* Python operations on a parsed value                                     *)

\* what a step returns: raised is "" or the exception's type
Ok(x) == [raised |-> "", val |-> x]

Raise(e) == [raised |-> e, val |-> JNull]

\* whether `key in x` raises TypeError (x is not iterable)
InRaises(x) == x.t \in {"int", "null", "bool"}

\* key in x, for x a dict (its keys), a list (its elements) or a str
\* (its substrings)
PyIn(key, x) ==
    CASE x.t = "dict" -> key \in DOMAIN x.v
      [] x.t = "list" -> \E i \in 1..Len(x.v) : x.v[i].t = "str" /\ x.v[i].v = key
      [] x.t = "str" -> Contains(x.v, key)
      [] OTHER -> FALSE

\* x[key] = y, for key a str: only a dict takes it
SetItem(x, key, y) ==
    IF x.t = "dict" THEN Ok(JDict(DictPut(x.v, key, y))) ELSE Raise("TypeError")

\* len(x)
PyLen(x) ==
    CASE x.t = "list" -> Ok(Len(x.v))
      [] x.t = "str" -> Ok(Len(x.v))
      [] x.t = "dict" -> Ok(Cardinality(DOMAIN x.v))
      [] OTHER -> Raise("TypeError")

\* SliceTo keeping the last n, as x[-n:] does
SliceTo_Last(x, n) ==
    CASE x.t = "list" -> Ok(JList(Slice(x.v, Len(x.v) - n, Len(x.v))))
      [] x.t = "str" -> Ok(JStr(Slice(x.v, Len(x.v) - n, Len(x.v))))
      [] OTHER -> Raise("TypeError")

\* x[:n]: a list or a str is cut, a dict raises, the others have no len
SliceTo(x, n) ==
    CASE x.t = "list" -> Ok(JList(Head_(x.v, n)))
      [] x.t = "str" -> Ok(JStr(Head_(x.v, n)))
      [] OTHER -> Raise("TypeError")

---------------------------------------------------------------------------
(* Configuration (backend/config.py)                                       *)

P_squat == <<"s", "q", "u", "a", "t">>

P_push_up == <<"p", "u", "s", "h", "-", "u", "p">>

P_deadlift == <<"d", "e", "a", "d", "l", "i", "f", "t">>

P_bench_press == <<"b", "e", "n", "c", "h", " ", "p", "r", "e", "s", "s">>

P_pull_up == <<"p", "u", "l", "l", "-", "u", "p">>

P_plank == <<"p", "l", "a", "n", "k">>

P_lunge == <<"l", "u", "n", "g", "e">>

\* Config.EXERCISE_LANDMARKS: exercise name -> its landmark identifiers
EXERCISE_LANDMARKS ==
    (P_squat :> {"leftHip", "rightHip", "leftKnee", "rightKnee",
                 "leftAnkle", "rightAnkle", "leftShoulder", "rightShoulder"})
    @@ (P_push_up :> {"leftShoulder", "rightShoulder", "leftElbow",
                      "rightElbow", "leftWrist", "rightWrist", "leftHip",
                      "rightHip"})
    @@ (P_deadlift :> {"leftHip", "rightHip", "leftKnee", "rightKnee",
                       "leftShoulder", "rightShoulder", "leftAnkle",
                       "rightAnkle"})
    @@ (P_bench_press :> {"leftShoulder", "rightShoulder", "leftElbow",
                          "rightElbow", "leftWrist", "rightWrist"})
    @@ (P_pull_up :> {"leftShoulder", "rightShoulder", "leftElbow",
                      "rightElbow", "leftWrist", "rightWrist", "leftHip",
                      "rightHip"})
    @@ (P_plank :> {"leftShoulder", "rightShoulder", "leftElbow",
                    "rightElbow", "leftHip", "rightHip", "leftAnkle",
                    "rightAnkle"})
    @@ (P_lunge :> {"leftHip", "rightHip", "leftKnee", "rightKnee",
                    "leftAnkle", "rightAnkle", "leftShoulder",
                    "rightShoulder"})

\* Config.CONFIDENCE_THRESHOLD, the default 0.5, in hundredths
CONFIDENCE_THRESHOLD == 50

---------------------------------------------------------------------------
(* Pose Formatter: PoseAnalyzer.format_pose_data                           *)
(*                                                                         *)
(* A pose is [has_landmarks, landmarks]; landmarks is the dict's items in  *)
(* order, each [name, data]; data is [isDict, xyz, conf]: whether the      *)
(* entry is a dict, whether its x, y and z are numbers, and its            *)
(* 'confidence' entry [k, v] with k in "num" (v hundredths), "bool"        *)
(* (v is 100 for True, 0 for False), "str", "null" or "absent".            *)

UpperCase ==
    <<"A", "B", "C", "D", "E", "F", "G", "H", "I", "J", "K", "L", "M",
      "N", "O", "P", "Q", "R", "S", "T", "U", "V", "W", "X", "Y", "Z">>

LowerCase ==
    <<"a", "b", "c", "d", "e", "f", "g", "h", "i", "j", "k", "l", "m",
      "n", "o", "p", "q", "r", "s", "t", "u", "v", "w", "x", "y", "z">>

LowerChar(c) ==
    IF \E i \in 1..Len(UpperCase) : UpperCase[i] = c
    THEN LowerCase[CHOOSE i \in 1..Len(UpperCase) : UpperCase[i] = c]
    ELSE c

\* str.lower()
Lower(s) == [i \in 1..Len(s) |-> LowerChar(s[i])]

\* bool(x) of a Python value
Truthy(x) ==
    CASE x.t = "null" -> FALSE
      [] x.t = "bool" -> x.v
      [] x.t = "int" -> x.v # 0
      [] x.t = "str" -> x.v # << >>
      [] x.t = "list" -> x.v # << >>
      [] x.t = "dict" -> DOMAIN x.v # {}

\* RelevantLandmarks looking the name up as given, without lower()
RelevantLandmarks_NoLower(exercise_name) ==
    IF Truthy(exercise_name) /\ exercise_name.v \in DOMAIN EXERCISE_LANDMARKS
    THEN EXERCISE_LANDMARKS[exercise_name.v]
    ELSE {}

\* EXERCISE_LANDMARKS.get(exercise_name.lower() if exercise_name else None,
\* None); the empty set stands for None (both are false in `if`)
RelevantLandmarks(exercise_name) ==
    IF Truthy(exercise_name) /\ Lower(exercise_name.v) \in DOMAIN EXERCISE_LANDMARKS
    THEN EXERCISE_LANDMARKS[Lower(exercise_name.v)]
    ELSE {}

\* the landmarks kept by the profile, in the frame's order
LandmarksToShow(landmarks, relevant_landmarks) ==
    IF relevant_landmarks # {}
    THEN SelectSeq(landmarks, LAMBDA e : e.name \in relevant_landmarks)
    ELSE landmarks

\* landmark_data.get('confidence', 0)
ConfidenceOf(landmark_data) ==
    IF landmark_data.conf.k = "absent" THEN [k |-> "num", v |-> 0]
    ELSE landmark_data.conf

\* isinstance(confidence, (int, float)): bool is a subclass of int
IsIntOrFloat(confidence) == confidence.k \in {"num", "bool"}

\* the two tests a landmark passes to get a line
HighConfidence(landmark_data) ==
    /\ landmark_data.isDict
    /\ IsIntOrFloat(ConfidenceOf(landmark_data))
    /\ ConfidenceOf(landmark_data).v > CONFIDENCE_THRESHOLD

\* one line of a prompt's data block
Line(kind, n, name, val, text) ==
    [kind |-> kind, n |-> n, name |-> name, val |-> val, text |-> text]

\* "  . name: x=.., y=.., z=.. (conf: ..)"
LandmarkLine(e) == Line("landmark", 0, e.name, ConfidenceOf(e.data).v, "")

\* the block of person idx (from 0): "Person idx+1:", its lines, a blank line
PersonBlock(idx, pose, relevant_landmarks) ==
    LET shown == SelectSeq(LandmarksToShow(pose.landmarks, relevant_landmarks),
                           LAMBDA e : HighConfidence(e.data))
    IN  <<Line("person", idx + 1, "", 0, "")>>
        \o (IF pose.has_landmarks
            THEN [i \in 1..Len(shown) |-> LandmarkLine(shown[i])]
                 \o <<Line("blank", 0, "", 0, "")>>
            ELSE << >>)

\* formatting 'N/A' with .2f raises ValueError: a landmark that gets a line
\* and whose x, y or z is not a number
PoseRaises(pose, relevant_landmarks) ==
    /\ pose.has_landmarks
    /\ \E i \in 1..Len(pose.landmarks) :
          /\ relevant_landmarks # {} => pose.landmarks[i].name \in relevant_landmarks
          /\ HighConfidence(pose.landmarks[i].data)
          /\ ~pose.landmarks[i].data.xyz

RECURSIVE PersonBlocks(_, _, _)
PersonBlocks(idx, poses, relevant_landmarks) ==
    IF poses = << >> THEN << >>
    ELSE PersonBlock(idx, Head(poses), relevant_landmarks)
         \o PersonBlocks(idx + 1, Tail(poses), relevant_landmarks)

\* format_pose_data(poses, exercise_name): [raised, lines]
format_pose_data(poses, exercise_name) ==
    LET relevant_landmarks == RelevantLandmarks(exercise_name)
    IN  IF \E i \in 1..Len(poses) : PoseRaises(poses[i], relevant_landmarks)
        THEN [raised |-> "ValueError", lines |-> << >>]
        ELSE [raised |-> "",
              lines |-> <<Line("header", 0, "", 0, "")>>
                        \o PersonBlocks(0, poses, relevant_landmarks)]

\* PoseAnalyzer.format_pose_data of backend/app.py, the copy the handlers of
\* app.py call: [raised, lines]
app_format_pose_data(poses, exercise_name) ==
    LET key == IF Truthy(exercise_name) THEN Lower(exercise_name.v) ELSE << >>
        found == Truthy(exercise_name) /\ key \in DOMAIN EXERCISE_LANDMARKS
        relevant_landmarks == IF found THEN EXERCISE_LANDMARKS[key] ELSE {}
        landmarks_to_show(pose) ==
            IF found /\ relevant_landmarks # {}
            THEN SelectSeq(pose.landmarks, LAMBDA e : e.name \in relevant_landmarks)
            ELSE pose.landmarks
        confidence(e) ==
            IF e.data.conf.k = "absent" THEN [k |-> "num", v |-> 0] ELSE e.data.conf
        included(e) ==
            /\ e.data.isDict
            /\ confidence(e).k \in {"num", "bool"}
            /\ confidence(e).v > CONFIDENCE_THRESHOLD
        emitted(pose) == SelectSeq(landmarks_to_show(pose), included)
        block(idx) ==
            <<Line("person", idx, "", 0, "")>>
            \o (IF poses[idx].has_landmarks
                THEN [i \in 1..Len(emitted(poses[idx])) |->
                        Line("landmark", 0, emitted(poses[idx])[i].name,
                             confidence(emitted(poses[idx])[i]).v, "")]
                     \o <<Line("blank", 0, "", 0, "")>>
                ELSE << >>)
        formatted_to[n \in 0..Len(poses)] ==
            IF n = 0 THEN <<Line("header", 0, "", 0, "")>>
            ELSE formatted_to[n - 1] \o block(n)
    IN  IF \E n \in 1..Len(poses) :
              /\ poses[n].has_landmarks
              /\ \E i \in 1..Len(emitted(poses[n])) : ~emitted(poses[n])[i].data.xyz
        THEN [raised |-> "ValueError", lines |-> << >>]
        ELSE [raised |-> "", lines |-> formatted_to[Len(poses)]]

---------------------------------------------------------------------------
(* Response normalisation, per mode                                        *)

\* required_fields of analyze_exercise_form
RequiredFields ==
    <<K_exercise_name, K_form_score, K_issues, K_corrections, K_positives,
      K_overall_feedback>>

\* FieldDefault with every default the empty string
FieldDefault_AlwaysText(field) == JStr(<< >>)

\* [] if field in ['issues', 'corrections', 'positives'] else ""
FieldDefault(field) ==
    IF field \in {K_issues, K_corrections, K_positives}
    THEN JList(<< >>) ELSE JStr(<< >>)

\* for field in required_fields: if field not in analysis: analysis[field] = ...
RECURSIVE ValidateRequired(_, _)
ValidateRequired(analysis, fields) ==
    IF fields = << >> THEN Ok(analysis)
    ELSE IF InRaises(analysis) THEN Raise("TypeError")
    ELSE IF PyIn(Head(fields), analysis)
         THEN ValidateRequired(analysis, Tail(fields))
    ELSE LET r == SetItem(analysis, Head(fields), FieldDefault(Head(fields)))
         IN  IF r.raised # "" THEN r
             ELSE ValidateRequired(r.val, Tail(fields))

\* the payload built when json.loads raises, in analyze_exercise_form
FallbackAnalysis(exercise_name, response_text) ==
    JDict((K_exercise_name :> (IF Truthy(exercise_name) THEN exercise_name
                               ELSE JStr(S_Unknown)))
          @@ (K_form_score :> JInt(5))
          @@ (K_issues :> JList(<<JStr(S_UnableToParse)>>))
          @@ (K_corrections :> JList(<<JStr(S_ReviewRaw)>>))
          @@ (K_positives :> JList(<< >>))
          @@ (K_overall_feedback :> JStr(response_text))
          @@ (K_raw_response :> JStr(response_text)))

\* analyze_exercise_form from response.text on: the dict it returns
FormResult(exercise_name, text) ==
    LET response_text == Strip(text)
        parsed == Loads(ExtractCandidate(response_text))
        filled == ValidateRequired(parsed.val, RequiredFields)
    IN  IF ~parsed.ok
        THEN [success |-> TRUE,
              analysis |-> FallbackAnalysis(exercise_name, response_text)]
        ELSE IF filled.raised # ""
        THEN [success |-> FALSE, error |-> filled.raised]
        ELSE [success |-> TRUE, analysis |-> filled.val]

\* if 'critical_issues' not in feedback: feedback['critical_issues'] = []
\* if 'immediate_action' not in feedback: feedback['immediate_action'] = json_text
EnsureFeedbackFields(feedback, json_text) ==
    LET a == IF InRaises(feedback) THEN Raise("TypeError")
             ELSE IF PyIn(K_critical_issues, feedback) THEN Ok(feedback)
             ELSE SetItem(feedback, K_critical_issues, JList(<< >>))
    IN  IF a.raised # "" THEN a
        ELSE IF PyIn(K_immediate_action, a.val) THEN a
        ELSE SetItem(a.val, K_immediate_action, JStr(json_text))

\* if len(feedback['critical_issues']) > 3:
\*     feedback['critical_issues'] = feedback['critical_issues'][:3]
LimitCriticalIssues(feedback) ==
    IF feedback.t # "dict" THEN Raise("TypeError")
    ELSE LET issues == feedback.v[K_critical_issues]
             n == PyLen(issues)
             cut == SliceTo(issues, 3)
         IN  IF n.raised # "" THEN Raise(n.raised)
             ELSE IF n.val > 3
                  THEN (IF cut.raised # "" THEN Raise(cut.raised)
                        ELSE SetItem(feedback, K_critical_issues, cut.val))
             ELSE Ok(feedback)

\* the payload built when json.loads raises, in real_time_feedback
FallbackFeedback(text) ==
    JDict((K_critical_issues :> JList(<<JStr(S_FormCheck)>>))
          @@ (K_immediate_action :> JStr(Strip(text))))

\* real_time_feedback from response.text on: [raised, val], val the feedback
FeedbackResult(text) ==
    LET json_text == Strip(text)
        parsed == Loads(ExtractCandidate(json_text))
        ensured == EnsureFeedbackFields(parsed.val, json_text)
    IN  IF ~parsed.ok THEN Ok(FallbackFeedback(text))
        ELSE IF ensured.raised # "" THEN ensured
        ELSE LimitCriticalIssues(ensured.val)

\* the payload built when json.loads raises, in analyze_angles
FallbackAngles(text) ==
    JDict((K_form_quality :> JStr(S_needs_improvement))
          @@ (K_corrections :> JList(<<JStr(S_ReviewIssues)>>))
          @@ (K_encouragement :> JStr(Strip(text))))

\* analyze_angles from response.text on: the analysis
AnglesResult(text) ==
    LET parsed == Loads(ExtractCandidateNoTest(Strip(text)))
    IN  IF parsed.ok THEN parsed.val ELSE FallbackAngles(text)

\* FallbackCoaching with the cue not cut
FallbackCoaching_NoCut(text) ==
    JDict((K_quick_fix :> JStr(S_AdjustForm))
          @@ (K_why_it_matters :> JStr(S_ProperForm))
          @@ (K_cue :> JStr(Strip(text))))

\* the payload built when json.loads raises, in analyze_form_issue
FallbackCoaching(text) ==
    JDict((K_quick_fix :> JStr(S_AdjustForm))
          @@ (K_why_it_matters :> JStr(S_ProperForm))
          @@ (K_cue :> JStr(Head_(Strip(text), 50))))

\* analyze_form_issue from response.text on: the coaching
CoachingResult(text) ==
    LET parsed == Loads(ExtractCandidateNoTest(Strip(text)))
    IN  IF parsed.ok THEN parsed.val ELSE FallbackCoaching(text)

---------------------------------------------------------------------------
(* The texts the Model Gateway returns                                     *)

\* the longest critical_issues list a text holds
MaxIssues == 5

\* the length of the long prose answer, above the 50 characters of a cue
ProseLen == 60

Quote(s) == <<"\"">> \o s \o <<"\"">>

RECURSIVE Join(_, _)
Join(parts, sep) ==
    IF parts = << >> THEN << >>
    ELSE IF Len(parts) = 1 THEN parts[1]
    ELSE parts[1] \o sep \o Join(Tail(parts), sep)

\* the text of a JSON object with these members, of a JSON list with these items
ObjectText(members) == <<"{">> \o Join(members, <<",">>) \o <<"}">>

ListText(items) == <<"[">> \o Join(items, <<",", " ">>) \o <<"]">>

Member(key, value_text) == Quote(key) \o <<":", " ">> \o value_text

\* the members at the positions `keep`, in their order
Pick(members, keep) == SelectSeq(members, LAMBDA m : \E i \in keep : members[i] = m)

\* "i1", "i2", ...: the first n issue strings
IssueItems(n) == [i \in 1..n |-> Quote(<<"i", <<"1", "2", "3", "4", "5", "6", "7", "8", "9">>[i]>>)]

T_squat == <<"s", "q", "u", "a", "t">>

T_go == <<"g", "o">>

T_good == <<"g", "o", "o", "d">>

T_prose == <<"k", "e", "e", "p", " ", "c", "h", "e", "s", "t", " ", "u", "p">>

\* one member for each AnalysisResult field
AnalysisMembers ==
    <<Member(K_exercise_name, Quote(T_squat)),
      Member(K_form_score, <<"7">>),
      Member(K_issues, ListText(IssueItems(2))),
      Member(K_corrections, ListText(IssueItems(1))),
      Member(K_positives, ListText(<<Quote(T_good)>>)),
      Member(K_overall_feedback, Quote(T_prose))>>

AngleMembers ==
    <<Member(K_form_quality, Quote(T_good)),
      Member(K_corrections, ListText(IssueItems(1))),
      Member(K_encouragement, Quote(T_prose))>>

CoachingMembers ==
    <<Member(K_quick_fix, Quote(T_go)),
      Member(K_why_it_matters, Quote(T_prose)),
      Member(K_cue, Quote(T_go))>>

\* what a model may put under critical_issues: lists of 0..MaxIssues strings,
\* a number, a string, null, and objects of one and of four members
CriticalIssuesTexts ==
    {ListText(IssueItems(n)) : n \in 0..MaxIssues}
    \cup {<<"7">>, Quote(<<"a", "b", "c", "d">>), <<"n", "u", "l", "l">>,
          ObjectText(<<Member(<<"a">>, <<"1">>)>>),
          ObjectText([i \in 1..4 |-> Member(<<<<"a", "b", "c", "d">>[i]>>, <<"1">>)])}

\* JSON objects, complete and with members missing, for each mode
ObjectTexts ==
    {ObjectText(Pick(AnalysisMembers, keep)) : keep \in SUBSET (1..6)}
    \cup {ObjectText(Pick(AngleMembers, keep)) : keep \in SUBSET (1..3)}
    \cup {ObjectText(Pick(CoachingMembers, keep)) : keep \in SUBSET (1..3)}
    \cup {ObjectText(<<Member(K_critical_issues, c)>>) : c \in CriticalIssuesTexts}
    \cup {ObjectText(<<Member(K_critical_issues, c),
                       Member(K_immediate_action, Quote(T_go))>>) :
            c \in CriticalIssuesTexts}
    \cup {ObjectText(<<Member(K_immediate_action, Quote(T_go))>>),
          ObjectText(<<Member(K_raw_response, Quote(T_go))>>)}
    \cup {ObjectText(<<Member(K_cue, Quote(Fence))>>),
          ObjectText(<<Member(K_cue, Quote(JsonFence \o <<" ">> \o T_go \o Fence))>>)}

\* JSON values that are not objects
ValueTexts ==
    {<<"5">>, Quote(T_go), <<"n", "u", "l", "l">>, <<"t", "r", "u", "e">>,
     ListText(<<<<"1">>>>),
     ListText([i \in 1..6 |-> Quote(RequiredFields[i])]),
     ListText(<<Quote(K_critical_issues), Quote(K_immediate_action)>>)}

\* texts that are not JSON; one holds four backticks, two overlapping fence
\* markers
ProseTexts ==
    {T_prose, [i \in 1..ProseLen |-> "x"], << >>,
     <<"{">> \o T_go, T_go \o <<"}">>, <<"}", " ", "{">>,
     Fence \o <<Tick>> \o T_go,
     ObjectText(<<Member(K_cue, Quote(T_go))>>) \o <<" ">>
        \o ObjectText(<<Member(K_cue, Quote(T_go))>>)}

\* what a model puts before and after its answer
Prefixes ==
    {<< >>, <<" ", "\n">>, T_go \o <<":", " ">>, JsonFence, JsonFence \o <<"\n">>,
     Fence \o <<"\n">>, T_go \o <<" ">> \o JsonFence \o <<" ">>}

Suffixes ==
    {<< >>, <<"\n", " ">>, <<" ">> \o T_go, Fence, <<"\n">> \o Fence \o <<" ">> \o T_go,
     Fence \o T_go \o Fence}

\* the answers that are wrapped in every prefix and suffix
WrappedTexts ==
    {ObjectText(AnalysisMembers), ObjectText(Pick(AnalysisMembers, (1..6) \ {5})),
     ObjectText(<<Member(K_critical_issues, ListText(IssueItems(MaxIssues)))>>),
     ObjectText(AngleMembers), ObjectText(Pick(CoachingMembers, {1, 2})),
     <<"5">>, T_prose}

\* every text the gateway may return
ModelTexts ==
    ObjectTexts \cup ValueTexts \cup ProseTexts
    \cup {p \o w \o x : p \in Prefixes, w \in WrappedTexts, x \in Suffixes}

---------------------------------------------------------------------------
(* Requests                                                                *)
(*                                                                         *)
(* request.get_json() is [isNone, d]: None, or a dict d from its keys to   *)
(* their values (strings are Python values, as above).                     *)

\* the most persons in a request, and the most landmarks of a person
MaxPersons == 2

MaxLandmarks == 2

NoBody == [isNone |-> TRUE, d |-> << >>]

Body(d) == [isNone |-> FALSE, d |-> d]

\* dict.get(key, default)
Get(d, key, default) == IF key \in DOMAIN d THEN d[key] ELSE default

\* HasData with only None false
HasData_NoneOnly(data) == ~data.isNone

\* HasData with nothing false
HasData_Always(data) == TRUE

\* bool(data): None and {} are false
HasData(data) == ~data.isNone /\ DOMAIN data.d # {}

Landmark(name, isDict, xyz, k, v) ==
    [name |-> name,
     data |-> [isDict |-> isDict, xyz |-> xyz, conf |-> [k |-> k, v |-> v]]]

Pose(landmarks) == [has_landmarks |-> TRUE, landmarks |-> landmarks]

\* a pose without the 'landmarks' key
BarePose == [has_landmarks |-> FALSE, landmarks |-> << >>]

\* landmark identifiers: in no profile, in squat only, in push-up only, in both
LandmarkNames == {"nose", "leftKnee", "leftElbow", "leftShoulder"}

\* what a landmark's entry may be: a confidence at the threshold and just
\* above it, True, a string, no confidence, an entry that is not a dict, and
\* an entry without numeric coordinates
LandmarkData ==
    {Landmark("", TRUE, TRUE, "num", CONFIDENCE_THRESHOLD).data,
     Landmark("", TRUE, TRUE, "num", CONFIDENCE_THRESHOLD + 1).data,
     Landmark("", TRUE, TRUE, "bool", 100).data,
     Landmark("", TRUE, TRUE, "str", 0).data,
     Landmark("", TRUE, TRUE, "absent", 0).data,
     Landmark("", FALSE, FALSE, "absent", 0).data,
     Landmark("", TRUE, FALSE, "num", 88).data}

RECURSIVE SeqsUpTo(_, _)
SeqsUpTo(S, n) ==
    IF n = 0 THEN {<< >>}
    ELSE SeqsUpTo(S, n - 1)
         \cup {Append(q, x) : q \in SeqsUpTo(S, n - 1), x \in S}

\* a dict's keys are distinct
DistinctNames(landmarks) ==
    \A i, j \in 1..Len(landmarks) : landmarks[i].name = landmarks[j].name => i = j

\* the poses of one person: no landmarks key, or up to MaxLandmarks landmarks
Poses ==
    {BarePose}
    \cup {Pose(q) : q \in {l \in SeqsUpTo([name : LandmarkNames, data : LandmarkData],
                                          MaxLandmarks) : DistinctNames(l)}}

\* the squat frame of test_analyze_poses, cut to one landmark
SquatPose == Pose(<<Landmark("leftKnee", TRUE, TRUE, "num", 88)>>)

\* the persons after the first
MorePoses == {BarePose, SquatPose}

\* the exercise names of a request: null, empty, profiles in several cases,
\* and a name without a profile
T_yoga == <<"y", "o", "g", "a">>

ExerciseNames ==
    {JNull, JStr(<< >>), JStr(P_squat), JStr(<<"S", "q", "u", "a", "t">>),
     JStr(<<"P", "U", "S", "H", "-", "U", "P">>), JStr(T_yoga)}

\* the bodies of /analyze-poses and /real-time-feedback
PoseBodies ==
    {NoBody, Body(<< >>)}
    \cup {Body([exercise |-> e]) : e \in {JStr(P_squat)}}
    \cup {Body([poses |-> p]) :
            p \in {<< >>, <<SquatPose>>,
                   <<Pose(<<Landmark("leftKnee", TRUE, FALSE, "num", 88)>>)>>}}
    \cup {Body([poses |-> <<SquatPose>>, exercise |-> e]) :
            e \in {JStr(P_squat), JStr(<< >>), JNull}}

\* AngleReading: the items of the angles dict, an angle in degrees or None
AngleReadings ==
    {<< >>,
     <<[joint |-> "knee", angle |-> JInt(90)]>>,
     <<[joint |-> "knee", angle |-> JNull], [joint |-> "hip", angle |-> JInt(0)]>>}

\* FormIssue dicts, complete and with every key missing
FormIssues ==
    {<< >>,
     [type |-> "knee_valgus", description |-> "knees cave in", severity |-> "warning"]}

\* the form_issues of a request: none, one issue, an issue without keys
\* and a complete one
FormIssueLists ==
    {<< >>,
     <<[type |-> "knee_valgus", description |-> "knees cave in", severity |-> "warning"]>>,
     <<<< >>,
       [type |-> "knee_valgus", description |-> "knees cave in", severity |-> "warning"]>>}

\* the bodies of /analyze-angles
AngleBodies ==
    {NoBody, Body(<< >>), Body([exercise_name |-> JStr(P_squat)])}
    \cup {Body([angles |-> a]) : a \in AngleReadings}
    \cup {Body([exercise_name |-> JStr(P_squat), angles |-> a, form_issues |-> f]) :
            a \in AngleReadings, f \in FormIssueLists}

\* the bodies of /analyze-form-issue
IssueBodies ==
    {NoBody, Body(<< >>), Body([exercise_name |-> JStr(P_squat)])}
    \cup {Body([issue |-> i]) : i \in FormIssues}
    \cup {Body([exercise_name |-> JStr(P_squat), issue |-> i, angles |-> a]) :
            i \in FormIssues, a \in AngleReadings}

---------------------------------------------------------------------------
(* Prompt Builder                                                          *)

T_identify ==
    <<"U", "n", "k", "n", "o", "w", "n", " ", "-", " ", "i", "d", "e", "n",
      "t", "i", "f", "y", " ", "i", "t">>

T_unknown == <<"u", "n", "k", "n", "o", "w", "n">>

\* a prompt: its template, the exercise it names, the lines of its data block
Prompt(template, exercise, lines) ==
    [template |-> template, exercise |-> exercise, lines |-> lines]

NoPrompt == Prompt("", JNull, << >>)

\* AngleLines with a line "0" for an angle that is None
AngleLines_NoneAsZero(angles) ==
    [i \in 1..Len(angles) |->
        Line("angle", 0, angles[i].joint,
             IF angles[i].angle.t = "null" THEN 0 ELSE angles[i].angle.v, "")]

\* for joint, angle in angles.items(): if angle is not None: a line
AngleLines(angles) ==
    LET given == SelectSeq(angles, LAMBDA a : a.angle.t # "null")
    IN  [i \in 1..Len(given) |-> Line("angle", 0, given[i].joint, given[i].angle.v, "")]

\* if form_issues: "Detected Form Issues:", then two lines for each issue
RECURSIVE IssueLines(_, _)
IssueLines(form_issues, n) ==
    IF form_issues = << >> THEN << >>
    ELSE <<Line("issue", n, Get(Head(form_issues), "type", "unknown"), 0,
                Get(Head(form_issues), "description", "No description")),
           Line("severity", n, "", 0, Get(Head(form_issues), "severity", "unknown"))>>
         \o IssueLines(Tail(form_issues), n + 1)

\* angles_text of analyze_angles
AnglesText(angles, form_issues) ==
    AngleLines(angles)
    \o (IF form_issues # << >>
        THEN <<Line("issues_header", 0, "", 0, "")>> \o IssueLines(form_issues, 1)
        ELSE << >>)

\* issue_text of analyze_form_issue
IssueText(issue, angles) ==
    <<Line("issue_type", 0, Get(issue, "type", "unknown"), 0, ""),
      Line("severity", 0, "", 0, Get(issue, "severity", "warning")),
      Line("description", 0, "", 0, Get(issue, "description", "Form issue detected"))>>
    \o AngleLines(angles)

---------------------------------------------------------------------------
(* The HTTP surface and the Model Gateway                                  *)

VARIABLES
    pc,          \* "idle", "calling" (suspended in generate_content), "done"
    endpoint,    \* the route of the request being served
    data,        \* request.get_json()
    prompt,      \* the prompt given to the gateway
    calls,       \* generate_content calls made for the request
    gateway,     \* the outcome of the call: [raised, text]
    json_str,    \* the candidate extracted from the text
    response,    \* [status, body]
    arg_poses,   \* format_pose_data called on its own: its arguments,
    arg_exercise,
    formatted,   \* and what it returned
    threads,     \* requests served concurrently: for each worker thread its
                 \* request context and the locals of the handler it runs
    shared       \* the objects every thread sees: the class attributes of
                 \* PoseAnalyzer

vars ==
    <<pc, endpoint, data, prompt, calls, gateway, json_str, response,
      arg_poses, arg_exercise, formatted, threads, shared>>

\* what the handling of one request leaves alone
fmt_vars == <<arg_poses, arg_exercise, formatted, threads, shared>>

\* the threads of the server
MaxRequests == 2

\* PoseAnalyzer.EXERCISE_LANDMARKS and PoseAnalyzer.CONFIDENCE_THRESHOLD
ModuleState ==
    [EXERCISE_LANDMARKS |-> EXERCISE_LANDMARKS,
     CONFIDENCE_THRESHOLD |-> CONFIDENCE_THRESHOLD]

NoOutcome == [raised |-> FALSE, text |-> << >>]

\* jsonify(body), status
Json(status, body) == [status |-> status, body |-> body]

NoResponse == Json(0, << >>)

NotFormatted == [raised |-> "", lines |-> << >>]

\* a thread between two requests
IdleThread ==
    [pc |-> "idle", endpoint |-> "", request |-> NoBody, data |-> NoBody,
     gateway |-> NoOutcome, response |-> NoResponse]

Init ==
    /\ pc = "idle"
    /\ endpoint = ""
    /\ data = NoBody
    /\ prompt = NoPrompt
    /\ calls = 0
    /\ gateway = NoOutcome
    /\ json_str = << >>
    /\ response = NoResponse
    /\ arg_poses = << >>
    /\ arg_exercise = JNull
    /\ formatted = NotFormatted
    /\ threads = [r \in 1..MaxRequests |-> IdleThread]
    /\ shared = ModuleState

\* the handler returns before it calls the gateway
Reply(route, d, r) ==
    /\ pc' = "done"
    /\ endpoint' = route
    /\ data' = d
    /\ response' = r
    /\ UNCHANGED <<prompt, calls, gateway, json_str>>

\* the handler calls model.generate_content(prompt)
Call(route, d, p) ==
    /\ pc' = "calling"
    /\ endpoint' = route
    /\ data' = d
    /\ prompt' = p
    /\ UNCHANGED <<calls, gateway, json_str, response>>

\* Return with the call made again when generate_content raises
Return_Retry(outcome, candidate, r) ==
    IF outcome.raised
    THEN /\ calls' = calls + 1
         /\ UNCHANGED <<pc, endpoint, data, prompt, gateway, json_str, response>>
    ELSE /\ pc' = "done"
         /\ calls' = calls + 1
         /\ gateway' = outcome
         /\ json_str' = candidate
         /\ response' = r
         /\ UNCHANGED <<endpoint, data, prompt>>

\* generate_content returns or raises, and the handler runs to its return
Return(outcome, candidate, r) ==
    /\ pc' = "done"
    /\ calls' = calls + 1
    /\ gateway' = outcome
    /\ json_str' = (IF outcome.raised THEN << >> ELSE candidate)
    /\ response' = r
    /\ UNCHANGED <<endpoint, data, prompt>>

\* what generate_content may do: return a text, or raise
Outcomes ==
    {[raised |-> FALSE, text |-> t] : t \in ModelTexts}
    \cup {[raised |-> TRUE, text |-> << >>]}

\* the body of an error response: str(e) is the exception's type here
Failure(error) == [success |-> FALSE, error |-> error]

---------------------------------------------------------------------------
(* POST /analyze-poses: analyze_poses and PoseAnalyzer.analyze_exercise_form *)

\* up to model.generate_content: validation, then the prompt.  An exception
\* in analyze_exercise_form is caught there and returned as a dict, which
\* analyze_poses sends with jsonify(result), status 200
analyze_poses_begin(d) ==
    LET poses == d.d["poses"]
        exercise_name == Get(d.d, "exercise", JNull)
        pose_text == app_format_pose_data(poses, exercise_name)
    IN  IF ~HasData(d) \/ "poses" \notin DOMAIN d.d
        THEN Reply("/analyze-poses", d,
                   Json(400, Failure("Missing 'poses' in request body")))
        ELSE IF poses = << >>
        THEN Reply("/analyze-poses", d, Json(400, Failure("Poses list is empty")))
        ELSE IF pose_text.raised # ""
        THEN Reply("/analyze-poses", d, Json(200, Failure(pose_text.raised)))
        ELSE Call("/analyze-poses", d,
                  Prompt("full_form",
                         IF Truthy(exercise_name) THEN exercise_name
                         ELSE JStr(T_identify),
                         pose_text.lines))

\* from the gateway's outcome to the response
analyze_poses_end(outcome) ==
    IF outcome.raised
    THEN Return(outcome, << >>, Json(200, Failure("gateway error")))
    ELSE Return(outcome, ExtractCandidate(Strip(outcome.text)),
                Json(200, FormResult(Get(data.d, "exercise", JNull), outcome.text)))

analyze_poses ==
    \/ /\ pc = "idle"
       /\ \E d \in PoseBodies : analyze_poses_begin(d)
    \/ /\ pc = "calling"
       /\ endpoint = "/analyze-poses"
       /\ \E outcome \in Outcomes : analyze_poses_end(outcome)

---------------------------------------------------------------------------
(* POST /real-time-feedback: real_time_feedback                            *)

\* data.get on None raises AttributeError, caught by the handler: 500
real_time_feedback_begin(d) ==
    LET poses == Get(d.d, "poses", << >>)
        exercise_name == Get(d.d, "exercise", JStr(<< >>))
        pose_text == app_format_pose_data(poses, exercise_name)
    IN  IF d.isNone
        THEN Reply("/real-time-feedback", d, Json(500, Failure("AttributeError")))
        ELSE IF poses = << >>
        THEN Reply("/real-time-feedback", d,
                   Json(400, Failure("No pose data provided")))
        ELSE IF pose_text.raised # ""
        THEN Reply("/real-time-feedback", d, Json(500, Failure(pose_text.raised)))
        ELSE Call("/real-time-feedback", d,
                  Prompt("real_time", exercise_name, pose_text.lines))

real_time_feedback_end(outcome) ==
    LET feedback == FeedbackResult(outcome.text)
        candidate == ExtractCandidate(Strip(outcome.text))
    IN  IF outcome.raised
        THEN Return(outcome, << >>, Json(500, Failure("gateway error")))
        ELSE IF feedback.raised # ""
        THEN Return(outcome, candidate, Json(500, Failure(feedback.raised)))
        ELSE Return(outcome, candidate,
                    Json(200, [success |-> TRUE, feedback |-> feedback.val]))

real_time_feedback ==
    \/ /\ pc = "idle"
       /\ \E d \in PoseBodies : real_time_feedback_begin(d)
    \/ /\ pc = "calling"
       /\ endpoint = "/real-time-feedback"
       /\ \E outcome \in Outcomes : real_time_feedback_end(outcome)

---------------------------------------------------------------------------
(* POST /analyze-angles: analyze_angles                                    *)

analyze_angles_begin(d) ==
    LET exercise_name == Get(d.d, "exercise_name", JStr(T_unknown))
        angles == Get(d.d, "angles", << >>)
        form_issues == Get(d.d, "form_issues", << >>)
    IN  IF ~HasData(d)
        THEN Reply("/analyze-angles", d, Json(400, Failure("No data provided")))
        ELSE Call("/analyze-angles", d,
                  Prompt("angles", exercise_name, AnglesText(angles, form_issues)))

analyze_angles_end(outcome) ==
    IF outcome.raised
    THEN Return(outcome, << >>, Json(500, Failure("gateway error")))
    ELSE Return(outcome, ExtractCandidateNoTest(Strip(outcome.text)),
                Json(200, [success |-> TRUE,
                           analysis |-> AnglesResult(outcome.text),
                           angles |-> Get(data.d, "angles", << >>),
                           form_issues_count |->
                               Len(Get(data.d, "form_issues", << >>))]))

analyze_angles ==
    \/ /\ pc = "idle"
       /\ \E d \in AngleBodies : analyze_angles_begin(d)
    \/ /\ pc = "calling"
       /\ endpoint = "/analyze-angles"
       /\ \E outcome \in Outcomes : analyze_angles_end(outcome)

---------------------------------------------------------------------------
(* POST /analyze-form-issue: analyze_form_issue                            *)

analyze_form_issue_begin(d) ==
    LET exercise_name == Get(d.d, "exercise_name", JStr(T_unknown))
        issue == Get(d.d, "issue", << >>)
        angles == Get(d.d, "angles", << >>)
    IN  IF ~HasData(d)
        THEN Reply("/analyze-form-issue", d, Json(400, Failure("No data provided")))
        ELSE Call("/analyze-form-issue", d,
                  Prompt("form_issue", exercise_name, IssueText(issue, angles)))

analyze_form_issue_end(outcome) ==
    IF outcome.raised
    THEN Return(outcome, << >>, Json(500, Failure("gateway error")))
    ELSE Return(outcome, ExtractCandidateNoTest(Strip(outcome.text)),
                Json(200, [success |-> TRUE,
                           coaching |-> CoachingResult(outcome.text),
                           issue |-> Get(data.d, "issue", << >>)]))

analyze_form_issue ==
    \/ /\ pc = "idle"
       /\ \E d \in IssueBodies : analyze_form_issue_begin(d)
    \/ /\ pc = "calling"
       /\ endpoint = "/analyze-form-issue"
       /\ \E outcome \in Outcomes : analyze_form_issue_end(outcome)

---------------------------------------------------------------------------
(* The server                                                              *)

\* the response is sent and the next request is taken
NextRequest ==
    /\ pc = "done"
    /\ pc' = "idle"
    /\ endpoint' = ""
    /\ data' = NoBody
    /\ prompt' = NoPrompt
    /\ calls' = 0
    /\ gateway' = NoOutcome
    /\ json_str' = << >>
    /\ response' = NoResponse

Next ==
    \/ analyze_poses /\ UNCHANGED fmt_vars
    \/ real_time_feedback /\ UNCHANGED fmt_vars
    \/ analyze_angles /\ UNCHANGED fmt_vars
    \/ analyze_form_issue /\ UNCHANGED fmt_vars
    \/ NextRequest /\ UNCHANGED fmt_vars

Spec == Init /\ [][Next]_vars

---------------------------------------------------------------------------
(* format_pose_data on its own inputs                                      *)

FormatInit ==
    /\ pc = "idle"
    /\ endpoint = ""
    /\ data = NoBody
    /\ prompt = NoPrompt
    /\ calls = 0
    /\ gateway = NoOutcome
    /\ json_str = << >>
    /\ response = NoResponse
    /\ \E first \in Poses, more \in SeqsUpTo(MorePoses, MaxPersons - 1) :
          arg_poses = <<first>> \o more
    /\ arg_exercise \in ExerciseNames
    /\ formatted = NotFormatted
    /\ threads = [r \in 1..MaxRequests |-> IdleThread]
    /\ shared = ModuleState

Format ==
    /\ pc = "idle"
    /\ pc' = "done"
    /\ formatted' = format_pose_data(arg_poses, arg_exercise)
    /\ UNCHANGED <<endpoint, data, prompt, calls, gateway, json_str, response,
                   arg_poses, arg_exercise, threads, shared>>

FormatNext == Format

FormatSpec == FormatInit /\ [][FormatNext]_vars

---------------------------------------------------------------------------
(* The second copy of the pipeline: analyzers/pose_analyzer.py and         *)
(* routes/analysis_routes.py.  Each function is given as what it returns   *)
(* for a request body and the gateway's outcome for its one call:          *)
(* [called, response], called telling whether generate_content was reached *)

\* PoseAnalyzer.analyze_exercise_form of analyzers/pose_analyzer.py: the
\* dict it returns
pa_analyze_exercise_form(poses, exercise_name, outcome) ==
    LET pose_text == format_pose_data(poses, exercise_name)
        response_text == Strip(outcome.text)
        extracted ==
            IF Contains(response_text, JsonFence)
            THEN LET json_start == Find(response_text, JsonFence, 0) + 7
                     json_end == Find(response_text, Fence, json_start)
                 IN  Strip(Slice(response_text, json_start, json_end))
            ELSE IF Contains(response_text, Fence)
            THEN LET json_start == Find(response_text, Fence, 0) + 3
                     json_end == RFind(response_text, Fence)
                 IN  Strip(Slice(response_text, json_start, json_end))
            ELSE IF Contains(response_text, <<"{">>) /\ Contains(response_text, <<"}">>)
            THEN LET json_start == Find(response_text, <<"{">>, 0)
                     json_end == RFind(response_text, <<"}">>) + 1
                 IN  Slice(response_text, json_start, json_end)
            ELSE response_text
        loaded == Loads(extracted)
        required_fields ==
            <<K_exercise_name, K_form_score, K_issues, K_corrections,
              K_positives, K_overall_feedback>>
        default(field) ==
            IF field \in {K_issues, K_corrections, K_positives}
            THEN JList(<< >>) ELSE JStr(<< >>)
        analysis[n \in 0..Len(required_fields)] ==
            IF n = 0 THEN Ok(loaded.val)
            ELSE IF analysis[n - 1].raised # "" THEN analysis[n - 1]
            ELSE IF InRaises(analysis[n - 1].val) THEN Raise("TypeError")
            ELSE IF PyIn(required_fields[n], analysis[n - 1].val)
                 THEN analysis[n - 1]
            ELSE SetItem(analysis[n - 1].val, required_fields[n],
                         default(required_fields[n]))
        validated == analysis[Len(required_fields)]
    IN  IF pose_text.raised # "" THEN Failure(pose_text.raised)
        ELSE IF outcome.raised THEN Failure("gateway error")
        ELSE IF ~loaded.ok
        THEN [success |-> TRUE,
              analysis |->
                  JDict((K_exercise_name :>
                            (IF Truthy(exercise_name) THEN exercise_name
                             ELSE JStr(S_Unknown)))
                        @@ (K_form_score :> JInt(5))
                        @@ (K_issues :> JList(<<JStr(S_UnableToParse)>>))
                        @@ (K_corrections :> JList(<<JStr(S_ReviewRaw)>>))
                        @@ (K_positives :> JList(<< >>))
                        @@ (K_overall_feedback :> JStr(response_text))
                        @@ (K_raw_response :> JStr(response_text)))]
        ELSE IF validated.raised # "" THEN Failure(validated.raised)
        ELSE [success |-> TRUE, analysis |-> validated.val]

\* real_time_feedback of routes/analysis_routes.py
routes_real_time_feedback(d, outcome) ==
    LET poses == Get(d.d, "poses", << >>)
        exercise_name == Get(d.d, "exercise", JStr(<< >>))
        pose_text == format_pose_data(poses, exercise_name)
        json_text == Strip(outcome.text)
        extracted ==
            IF Contains(json_text, JsonFence)
            THEN LET json_start == Find(json_text, JsonFence, 0) + 7
                     json_end == Find(json_text, Fence, json_start)
                 IN  Strip(Slice(json_text, json_start, json_end))
            ELSE IF Contains(json_text, Fence)
            THEN LET json_start == Find(json_text, Fence, 0) + 3
                     json_end == RFind(json_text, Fence)
                 IN  Strip(Slice(json_text, json_start, json_end))
            ELSE IF Contains(json_text, <<"{">>) /\ Contains(json_text, <<"}">>)
            THEN LET json_start == Find(json_text, <<"{">>, 0)
                     json_end == RFind(json_text, <<"}">>) + 1
                 IN  Slice(json_text, json_start, json_end)
            ELSE json_text
        loaded == Loads(extracted)
        with_issues ==
            IF InRaises(loaded.val) THEN Raise("TypeError")
            ELSE IF PyIn(K_critical_issues, loaded.val) THEN Ok(loaded.val)
            ELSE SetItem(loaded.val, K_critical_issues, JList(<< >>))
        with_action ==
            IF with_issues.raised # "" THEN with_issues
            ELSE IF PyIn(K_immediate_action, with_issues.val) THEN with_issues
            ELSE SetItem(with_issues.val, K_immediate_action, JStr(json_text))
        limited ==
            IF with_action.raised # "" THEN with_action
            ELSE IF with_action.val.t # "dict" THEN Raise("TypeError")
            ELSE LET issues == with_action.val.v[K_critical_issues]
                     n == PyLen(issues)
                     first3 == SliceTo(issues, 3)
                 IN  IF n.raised # "" THEN Raise(n.raised)
                     ELSE IF n.val <= 3 THEN with_action
                     ELSE IF first3.raised # "" THEN Raise(first3.raised)
                     ELSE SetItem(with_action.val, K_critical_issues, first3.val)
        feedback ==
            IF loaded.ok THEN limited
            ELSE Ok(JDict((K_critical_issues :> JList(<<JStr(S_FormCheck)>>))
                          @@ (K_immediate_action :> JStr(Strip(outcome.text)))))
    IN  IF d.isNone
        THEN [called |-> FALSE, response |-> Json(500, Failure("AttributeError"))]
        ELSE IF poses = << >>
        THEN [called |-> FALSE,
              response |-> Json(400, Failure("No pose data provided"))]
        ELSE IF pose_text.raised # ""
        THEN [called |-> FALSE, response |-> Json(500, Failure(pose_text.raised))]
        ELSE IF outcome.raised
        THEN [called |-> TRUE, response |-> Json(500, Failure("gateway error"))]
        ELSE IF feedback.raised # ""
        THEN [called |-> TRUE, response |-> Json(500, Failure(feedback.raised))]
        ELSE [called |-> TRUE,
              response |-> Json(200, [success |-> TRUE, feedback |-> feedback.val])]

\* analyze_angles of routes/analysis_routes.py
routes_analyze_angles(d, outcome) ==
    LET angles == Get(d.d, "angles", << >>)
        form_issues == Get(d.d, "form_issues", << >>)
        json_text == Strip(outcome.text)
        extracted ==
            IF Contains(json_text, JsonFence)
            THEN LET json_start == Find(json_text, JsonFence, 0) + 7
                     json_end == Find(json_text, Fence, json_start)
                 IN  Strip(Slice(json_text, json_start, json_end))
            ELSE IF Contains(json_text, Fence)
            THEN LET json_start == Find(json_text, Fence, 0) + 3
                     json_end == RFind(json_text, Fence)
                 IN  Strip(Slice(json_text, json_start, json_end))
            ELSE LET json_start == Find(json_text, <<"{">>, 0)
                     json_end == RFind(json_text, <<"}">>) + 1
                 IN  Slice(json_text, json_start, json_end)
        loaded == Loads(extracted)
        analysis ==
            IF loaded.ok THEN loaded.val
            ELSE JDict((K_form_quality :> JStr(S_needs_improvement))
                       @@ (K_corrections :> JList(<<JStr(S_ReviewIssues)>>))
                       @@ (K_encouragement :> JStr(Strip(outcome.text))))
    IN  IF d.isNone \/ DOMAIN d.d = {}
        THEN [called |-> FALSE, response |-> Json(400, Failure("No data provided"))]
        ELSE IF outcome.raised
        THEN [called |-> TRUE, response |-> Json(500, Failure("gateway error"))]
        ELSE [called |-> TRUE,
              response |-> Json(200, [success |-> TRUE,
                                      analysis |-> analysis,
                                      angles |-> angles,
                                      form_issues_count |-> Len(form_issues)])]

\* routes_analyze_form_issue with the cue of the fallback not cut
routes_analyze_form_issue_WholeCue(d, outcome) ==
    LET issue == Get(d.d, "issue", << >>)
        json_text == Strip(outcome.text)
        extracted ==
            IF Contains(json_text, JsonFence)
            THEN LET json_start == Find(json_text, JsonFence, 0) + 7
                     json_end == Find(json_text, Fence, json_start)
                 IN  Strip(Slice(json_text, json_start, json_end))
            ELSE IF Contains(json_text, Fence)
            THEN LET json_start == Find(json_text, Fence, 0) + 3
                     json_end == RFind(json_text, Fence)
                 IN  Strip(Slice(json_text, json_start, json_end))
            ELSE LET json_start == Find(json_text, <<"{">>, 0)
                     json_end == RFind(json_text, <<"}">>) + 1
                 IN  Slice(json_text, json_start, json_end)
        loaded == Loads(extracted)
        coaching ==
            IF loaded.ok THEN loaded.val
            ELSE JDict((K_quick_fix :> JStr(S_AdjustForm))
                       @@ (K_why_it_matters :> JStr(S_ProperForm))
                       @@ (K_cue :> JStr(Strip(outcome.text))))
    IN  IF d.isNone \/ DOMAIN d.d = {}
        THEN [called |-> FALSE, response |-> Json(400, Failure("No data provided"))]
        ELSE IF outcome.raised
        THEN [called |-> TRUE, response |-> Json(500, Failure("gateway error"))]
        ELSE [called |-> TRUE,
              response |-> Json(200, [success |-> TRUE,
                                      coaching |-> coaching,
                                      issue |-> issue])]

\* analyze_form_issue of routes/analysis_routes.py
routes_analyze_form_issue(d, outcome) ==
    LET issue == Get(d.d, "issue", << >>)
        json_text == Strip(outcome.text)
        extracted ==
            IF Contains(json_text, JsonFence)
            THEN LET json_start == Find(json_text, JsonFence, 0) + 7
                     json_end == Find(json_text, Fence, json_start)
                 IN  Strip(Slice(json_text, json_start, json_end))
            ELSE IF Contains(json_text, Fence)
            THEN LET json_start == Find(json_text, Fence, 0) + 3
                     json_end == RFind(json_text, Fence)
                 IN  Strip(Slice(json_text, json_start, json_end))
            ELSE LET json_start == Find(json_text, <<"{">>, 0)
                     json_end == RFind(json_text, <<"}">>) + 1
                 IN  Slice(json_text, json_start, json_end)
        loaded == Loads(extracted)
        coaching ==
            IF loaded.ok THEN loaded.val
            ELSE JDict((K_quick_fix :> JStr(S_AdjustForm))
                       @@ (K_why_it_matters :> JStr(S_ProperForm))
                       @@ (K_cue :> JStr(Slice(Strip(outcome.text), 0, 50))))
    IN  IF d.isNone \/ DOMAIN d.d = {}
        THEN [called |-> FALSE, response |-> Json(400, Failure("No data provided"))]
        ELSE IF outcome.raised
        THEN [called |-> TRUE, response |-> Json(500, Failure("gateway error"))]
        ELSE [called |-> TRUE,
              response |-> Json(200, [success |-> TRUE,
                                      coaching |-> coaching,
                                      issue |-> issue])]

---------------------------------------------------------------------------
(* Requests served concurrently.  app.run serves each request in a thread  *)
(* of its own; a handler's variables are locals of its call, flask.request *)
(* is bound to the request of the calling thread, and a thread is          *)
(* suspended in generate_content while others run                          *)

\* the handler a route is bound to in app.py, up to model.generate_content:
\* [called, response], the response of a handler that returned before it
BeforeCall(route, d) ==
    CASE route = "/analyze-poses" ->
           IF ~HasData(d) \/ "poses" \notin DOMAIN d.d
           THEN [called |-> FALSE,
                 response |-> Json(400, Failure("Missing 'poses' in request body"))]
           ELSE IF d.d["poses"] = << >>
           THEN [called |-> FALSE,
                 response |-> Json(400, Failure("Poses list is empty"))]
           ELSE LET pose_text == app_format_pose_data(d.d["poses"],
                                                      Get(d.d, "exercise", JNull))
                IN  [called |-> pose_text.raised = "",
                     response |-> Json(200, Failure(pose_text.raised))]
      [] route = "/real-time-feedback" ->
           IF d.isNone
           THEN [called |-> FALSE, response |-> Json(500, Failure("AttributeError"))]
           ELSE IF Get(d.d, "poses", << >>) = << >>
           THEN [called |-> FALSE,
                 response |-> Json(400, Failure("No pose data provided"))]
           ELSE LET pose_text == app_format_pose_data(
                                     Get(d.d, "poses", << >>),
                                     Get(d.d, "exercise", JStr(<< >>)))
                IN  [called |-> pose_text.raised = "",
                     response |-> Json(500, Failure(pose_text.raised))]
      [] route \in {"/analyze-angles", "/analyze-form-issue"} ->
           [called |-> HasData(d),
            response |-> Json(400, Failure("No data provided"))]

\* the handler from the outcome of model.generate_content to its response
AfterCall(route, d, outcome) ==
    CASE route = "/analyze-poses" ->
           IF outcome.raised THEN Json(200, Failure("gateway error"))
           ELSE Json(200, FormResult(Get(d.d, "exercise", JNull), outcome.text))
      [] route = "/real-time-feedback" ->
           LET feedback == FeedbackResult(outcome.text)
           IN  IF outcome.raised THEN Json(500, Failure("gateway error"))
               ELSE IF feedback.raised # "" THEN Json(500, Failure(feedback.raised))
               ELSE Json(200, [success |-> TRUE, feedback |-> feedback.val])
      [] route = "/analyze-angles" ->
           IF outcome.raised THEN Json(500, Failure("gateway error"))
           ELSE Json(200, [success |-> TRUE,
                           analysis |-> AnglesResult(outcome.text),
                           angles |-> Get(d.d, "angles", << >>),
                           form_issues_count |->
                               Len(Get(d.d, "form_issues", << >>))])
      [] route = "/analyze-form-issue" ->
           IF outcome.raised THEN Json(500, Failure("gateway error"))
           ELSE Json(200, [success |-> TRUE,
                           coaching |-> CoachingResult(outcome.text),
                           issue |-> Get(d.d, "issue", << >>)])

\* the response of a handler, for a body and the outcome of its gateway call
Serve(route, d, outcome) ==
    IF BeforeCall(route, d).called THEN AfterCall(route, d, outcome)
    ELSE BeforeCall(route, d).response

\* the requests clients send: <<route, body>>
ConcRequests ==
    {<<"/analyze-poses", Body([poses |-> <<SquatPose>>])>>,
     <<"/real-time-feedback",
       Body([poses |-> <<SquatPose>>, exercise |-> JStr(P_squat)])>>,
     <<"/analyze-angles",
       Body([angles |-> <<[joint |-> "knee", angle |-> JInt(90)]>>])>>,
     <<"/analyze-angles", NoBody>>,
     <<"/analyze-form-issue",
       Body([issue |-> [type |-> "knee_valgus", description |-> "knees cave in",
                        severity |-> "warning"]])>>}

\* what generate_content does for one call
ConcOutcomes ==
    {[raised |-> TRUE, text |-> << >>]}
    \cup {[raised |-> FALSE, text |-> t] :
            t \in {T_prose,
                   ObjectText(<<Member(K_critical_issues,
                                       ListText(IssueItems(MaxIssues))),
                                Member(K_immediate_action, Quote(T_go))>>)}}

\* request.get_json() with request bound to the first thread's request
get_json_FirstThread(t, r) == t[1].request

\* request.get_json() in thread r: the body of the request of r's context
get_json(t, r) == t[r].request

\* what no step of a thread touches
conc_unchanged ==
    <<pc, endpoint, data, prompt, calls, gateway, json_str, response,
      arg_poses, arg_exercise, formatted, shared>>

ConcInit == Init

\* a request arrives and its context is pushed in a free thread
conc_arrive(r) ==
    /\ threads[r].pc = "idle"
    /\ \E q \in ConcRequests :
          threads' = [threads EXCEPT ![r] =
                         [IdleThread EXCEPT !.pc = "arrived",
                                            !.endpoint = q[1],
                                            !.request = q[2]]]

\* the handler runs up to generate_content, or to an early return
conc_begin(r) ==
    /\ threads[r].pc = "arrived"
    /\ LET d == get_json(threads, r)
           reply == BeforeCall(threads[r].endpoint, d)
       IN  threads' = [threads EXCEPT ![r] =
                          [@ EXCEPT !.pc = IF reply.called THEN "calling" ELSE "done",
                                    !.data = d,
                                    !.response = IF reply.called THEN NoResponse
                                                 ELSE reply.response]]

\* generate_content returns or raises, and the handler runs to its return
conc_return(r) ==
    /\ threads[r].pc = "calling"
    /\ \E outcome \in ConcOutcomes :
          threads' = [threads EXCEPT ![r] =
                         [@ EXCEPT !.pc = "done",
                                   !.gateway = outcome,
                                   !.response = AfterCall(threads[r].endpoint,
                                                          threads[r].data,
                                                          outcome)]]

\* the response is sent and the thread is free again
conc_close(r) ==
    /\ threads[r].pc = "done"
    /\ threads' = [threads EXCEPT ![r] = IdleThread]

ConcNext ==
    \/ \E r \in 1..MaxRequests : conc_arrive(r) /\ UNCHANGED conc_unchanged
    \/ \E r \in 1..MaxRequests : conc_begin(r) /\ UNCHANGED conc_unchanged
    \/ \E r \in 1..MaxRequests : conc_return(r) /\ UNCHANGED conc_unchanged
    \/ \E r \in 1..MaxRequests : conc_close(r) /\ UNCHANGED conc_unchanged

ConcSpec == ConcInit /\ [][ConcNext]_vars

---------------------------------------------------------------------------
(* Properties                                                              *)

Range(q) == {q[i] : i \in 1..Len(q)}

\* the request passed validation and the gateway returned a text
Answered == pc = "done" /\ calls = 1 /\ ~gateway.raised

\* the gateway was called and raised
GatewayFailed == pc = "done" /\ calls = 1 /\ gateway.raised

\* the payload of a success response, by mode
Payload ==
    CASE endpoint = "/analyze-poses" -> response.body.analysis
      [] endpoint = "/real-time-feedback" -> response.body.feedback
      [] endpoint = "/analyze-angles" -> response.body.analysis
      [] endpoint = "/analyze-form-issue" -> response.body.coaching

\* the fields each mode's schema requires: the lists, and the texts
ListFields ==
    CASE endpoint = "/analyze-poses" -> {K_issues, K_corrections, K_positives}
      [] endpoint = "/real-time-feedback" -> {K_critical_issues}
      [] endpoint = "/analyze-angles" -> {K_corrections}
      [] endpoint = "/analyze-form-issue" -> {}

TextFields ==
    CASE endpoint = "/analyze-poses" ->
            {K_exercise_name, K_form_score, K_overall_feedback}
      [] endpoint = "/real-time-feedback" -> {K_immediate_action}
      [] endpoint = "/analyze-angles" -> {K_form_quality, K_encouragement}
      [] endpoint = "/analyze-form-issue" -> {K_quick_fix, K_why_it_matters, K_cue}

\* the field that holds the raw text on the fallback path
DesignatedField ==
    CASE endpoint = "/analyze-poses" -> K_overall_feedback
      [] endpoint = "/real-time-feedback" -> K_immediate_action
      [] endpoint = "/analyze-angles" -> K_encouragement
      [] endpoint = "/analyze-form-issue" -> K_cue

\* the candidate parsed as a JSON object
ParsedObject == Loads(json_str).ok /\ Loads(json_str).val.t = "dict"

\* the response is a 200 success whose payload is an object with every
\* required field of the mode
CompletePayload ==
    /\ response.status = 200
    /\ response.body.success
    /\ Payload.t = "dict"
    /\ ListFields \cup TextFields \subseteq DOMAIN Payload.v

\* C1: in every mode, whatever text the gateway returns without raising, the
\* response to a valid request is HTTP 200 with success = true.
C1_MalformedNeverAnError ==
    Answered => response.status = 200 /\ response.body.success

\* C2: for /analyze-poses with a non-empty poses list, whatever text the
\* gateway returns, the response is 200 and its analysis holds all six
\* AnalysisResult fields.
C2_SixFieldsWhateverTheText ==
    (Answered /\ endpoint = "/analyze-poses") =>
        /\ response.status = 200
        /\ "analysis" \in DOMAIN response.body
        /\ response.body.analysis.t = "dict"
        /\ Range(RequiredFields) \subseteq DOMAIN response.body.analysis.v

\* C3: when generate raises, every endpoint answers 500 with success = false
\* and an error message.
C3_GatewayFailureIs500 ==
    GatewayFailed =>
        /\ response.status = 500
        /\ ~response.body.success
        /\ "error" \in DOMAIN response.body

\* C4: in full-form mode, when the candidate parses as a JSON object, every
\* absent required field is added with its default ([] for issues,
\* corrections, positives; "" for exercise_name, form_score,
\* overall_feedback) and every parsed field keeps its value.
C4_MissingFieldsSynthesized ==
    (Answered /\ endpoint = "/analyze-poses" /\ ParsedObject) =>
        LET parsed == Loads(json_str).val.v
            analysis == response.body.analysis
        IN  /\ response.status = 200
            /\ response.body.success
            /\ analysis.t = "dict"
            /\ DOMAIN analysis.v = DOMAIN parsed \cup Range(RequiredFields)
            /\ \A k \in DOMAIN parsed : analysis.v[k] = parsed[k]
            /\ \A k \in {K_issues, K_corrections, K_positives} \ DOMAIN parsed :
                  analysis.v[k] = JList(<< >>)
            /\ \A k \in {K_exercise_name, K_form_score, K_overall_feedback}
                        \ DOMAIN parsed :
                  analysis.v[k] = JStr(<< >>)

\* C4's case: a parsed object without positives, answered with positives = []
C4_Witness ==
    /\ Answered
    /\ endpoint = "/analyze-poses"
    /\ ParsedObject
    /\ DOMAIN Loads(json_str).val.v = Range(RequiredFields) \ {K_positives}
    /\ response.body.analysis.v[K_positives] = JList(<< >>)
    /\ response.body.analysis.v[K_form_score] = JInt(7)

\* C5: in the real-time, angle-based and issue-coaching modes, when the
\* candidate parses as a JSON object, every absent required field is
\* synthesized ([] for list fields, "" for text fields) in the payload.
C5_OtherModesSynthesize ==
    (Answered /\ endpoint # "/analyze-poses" /\ ParsedObject) =>
        /\ CompletePayload
        /\ \A k \in ListFields \ DOMAIN Loads(json_str).val.v :
              Payload.v[k] = JList(<< >>)
        /\ \A k \in TextFields \ DOMAIN Loads(json_str).val.v :
              Payload.v[k] = JStr(<< >>)

\* C6 as claimed: whenever the candidate does not parse as JSON, in every
\* mode the payload holds all required fields and the (trimmed) raw text,
\* unshortened, in the mode's designated field.
C6_FallbackVerbatim ==
    (Answered /\ ~Loads(json_str).ok) =>
        /\ CompletePayload
        /\ Payload.v[DesignatedField] = JStr(Strip(gateway.text))

\* C6 as amended: whenever the candidate does not parse as JSON, in every
\* mode the payload holds all required fields, and the designated field
\* holds the trimmed raw text: whole in overall_feedback, immediate_action
\* and encouragement, and its first 50 characters in cue.
C6_FallbackPreserved ==
    (Answered /\ ~Loads(json_str).ok) =>
        LET raw == Strip(gateway.text)
        IN  /\ CompletePayload
            /\ Payload.v[DesignatedField] =
                  JStr(IF endpoint = "/analyze-form-issue" /\ Len(raw) > 50
                       THEN SubSeq(raw, 1, 50) ELSE raw)

\* C6's case: a text of more than 50 characters that is not JSON, in the
\* issue-coaching mode, and its first 50 characters as the cue
C6_Witness ==
    /\ Answered
    /\ ~Loads(json_str).ok
    /\ endpoint = "/analyze-form-issue"
    /\ Len(Strip(gateway.text)) > 50
    /\ Len(response.body.coaching.v[K_cue].v) = 50

\* the number of entries of a critical_issues value
Entries(x) == IF x.t = "dict" THEN Cardinality(DOMAIN x.v) ELSE Len(x.v)

\* C7: every RealTimeFeedback payload returned with success = true has at
\* most 3 critical_issues: more than 3 parsed entries are cut to the first
\* 3 in order, 3 or fewer are left unchanged.
C7_AtMostThreeIssues ==
    (pc = "done" /\ endpoint = "/real-time-feedback" /\ response.status = 200
        /\ response.body.success) =>
        LET issues == response.body.feedback.v[K_critical_issues]
            parsed == Loads(json_str).val
        IN  /\ issues.t \in {"list", "str", "dict"}
            /\ Entries(issues) <= 3
            /\ (ParsedObject /\ K_critical_issues \in DOMAIN parsed.v) =>
                  IF Entries(parsed.v[K_critical_issues]) > 3
                  THEN issues = [t |-> parsed.v[K_critical_issues].t,
                                 v |-> SubSeq(parsed.v[K_critical_issues].v, 1, 3)]
                  ELSE issues = parsed.v[K_critical_issues]

\* C7's case: five parsed issues, answered with the first three
C7_Witness ==
    /\ pc = "done"
    /\ endpoint = "/real-time-feedback"
    /\ response.status = 200
    /\ ParsedObject
    /\ K_critical_issues \in DOMAIN Loads(json_str).val.v
    /\ Loads(json_str).val.v[K_critical_issues].t = "list"
    /\ Len(Loads(json_str).val.v[K_critical_issues].v) = 5
    /\ response.body.feedback.v[K_critical_issues] =
          JList(<<JStr(<<"i", "1">>), JStr(<<"i", "2">>), JStr(<<"i", "3">>)>>)

\* every landmark entry that is a dict has numeric x, y and z
NumericCoordinates ==
    \A n \in 1..Len(arg_poses) :
        \A i \in 1..Len(arg_poses[n].landmarks) :
            arg_poses[n].landmarks[i].data.isDict =>
                arg_poses[n].landmarks[i].data.xyz

\* the exercise name, lower-cased, is the key of a profile
ProfileMatched ==
    /\ arg_exercise.t = "str"
    /\ Lower(arg_exercise.v) \in DOMAIN EXERCISE_LANDMARKS

MatchedProfile == EXERCISE_LANDMARKS[Lower(arg_exercise.v)]

\* the identifiers of the landmark lines between "Person n:" and the next
\* person line, in the order of the output
EmittedNames(n) ==
    LET lines == formatted.lines
        start == CHOOSE j \in 1..Len(lines) :
                    lines[j].kind = "person" /\ lines[j].n = n
        stop == IF \E j \in 1..Len(lines) :
                       lines[j].kind = "person" /\ lines[j].n = n + 1
                THEN CHOOSE j \in 1..Len(lines) :
                        lines[j].kind = "person" /\ lines[j].n = n + 1
                ELSE Len(lines) + 1
        block == SelectSeq(SubSeq(lines, start + 1, stop - 1),
                           LAMBDA l : l.kind = "landmark")
    IN  [i \in 1..Len(block) |-> block[i].name]

\* the frame's identifiers, in the frame's order, whose entry is a dict with
\* a confidence that isinstance() takes for a number and that is above the
\* threshold
PassingNames(n) ==
    LET passing == SelectSeq(arg_poses[n].landmarks, LAMBDA e :
                        /\ e.data.isDict
                        /\ e.data.conf.k \in {"num", "bool"}
                        /\ e.data.conf.v > CONFIDENCE_THRESHOLD)
    IN  [i \in 1..Len(passing) |-> passing[i].name]

\* C8: format_pose_data filters by profile membership: when the lower-cased
\* exercise name matches a profile, every emitted identifier is in that
\* profile (and they are the passing identifiers that are in it); when the
\* name is absent, empty or matches none, the emitted identifiers are
\* exactly those that pass the confidence filter; in both cases in the
\* frame's own order.
C8_ProfileFiltering ==
    (pc = "done" /\ NumericCoordinates) =>
        /\ formatted.raised = ""
        /\ \A n \in 1..Len(arg_poses) :
              /\ \E j \in 1..Len(formatted.lines) :
                    formatted.lines[j].kind = "person" /\ formatted.lines[j].n = n
              /\ IF ProfileMatched
                 THEN /\ Range(EmittedNames(n)) \subseteq MatchedProfile
                      /\ EmittedNames(n) =
                            SelectSeq(PassingNames(n),
                                      LAMBDA name : name \in MatchedProfile)
                 ELSE EmittedNames(n) = PassingNames(n)

\* C8's case: exercise "Squat" and a frame whose nose and leftKnee both pass
\* the confidence filter: only leftKnee, which the squat profile holds, is
\* emitted
C8_Witness ==
    /\ pc = "done"
    /\ arg_exercise = JStr(<<"S", "q", "u", "a", "t">>)
    /\ PassingNames(1) = <<"nose", "leftKnee">>
    /\ EmittedNames(1) = <<"leftKnee">>

\* C9: format_pose_data emits a line for a retained landmark if and only if
\* its confidence is a number strictly above the threshold; a confidence at
\* or below it, missing, or not a number gives no line and no error.
C9_LineIffNumberAboveThreshold ==
    (pc = "done" /\ NumericCoordinates) =>
        /\ formatted.raised = ""
        /\ \A n \in 1..Len(arg_poses) :
              \A i \in 1..Len(arg_poses[n].landmarks) :
                 LET e == arg_poses[n].landmarks[i]
                 IN  (ProfileMatched => e.name \in MatchedProfile) =>
                        (e.name \in Range(EmittedNames(n))
                            <=> /\ e.data.isDict
                                /\ e.data.conf.k = "num"
                                /\ e.data.conf.v > CONFIDENCE_THRESHOLD)

\* C10: in every mode, a raw text that is exactly one JSON object (possibly
\* with whitespace around it) comes out of the extraction step unchanged,
\* trimmed.
C10_CleanObjectUnchanged ==
    (Answered /\ Loads(Strip(gateway.text)).ok
        /\ Loads(Strip(gateway.text)).val.t = "dict") =>
        json_str = Strip(gateway.text)

\* the trimmed text of the gateway's answer
Raw == Strip(gateway.text)

\* C11: when the raw text holds a json-tagged fence marker, the candidate is
\* the trimmed text between the end of the first json-tagged marker and the
\* next fence marker after it (the end of the text when there is none).
C11_JsonFenceBlock ==
    (Answered /\ Contains(Raw, JsonFence)) =>
        LET start == Min({i \in 0..Len(Raw) : OccursAt(Raw, JsonFence, i)}) + 7
            later == {i \in start..Len(Raw) : OccursAt(Raw, Fence, i)}
            stop == IF later = {} THEN Len(Raw) ELSE Min(later)
        IN  json_str = Strip(SubSeq(Raw, start + 1, stop))

\* C12: in all four modes the rules are json-tagged fence > any fence >
\* brace span > raw; here its last part: a text without a fence marker and
\* without both '{' and '}' is its own candidate, unchanged.
C12_RawWhenNoRuleApplies ==
    (Answered /\ ~Contains(Raw, Fence)
        /\ ~(Contains(Raw, <<"{">>) /\ Contains(Raw, <<"}">>))) =>
        json_str = Raw

\* C13: for /analyze-poses and /real-time-feedback a request whose poses
\* are missing or empty is answered 400 with success = false, and the
\* gateway is not called.
C13_NoPosesIs400 ==
    (pc = "done" /\ endpoint \in {"/analyze-poses", "/real-time-feedback"}
        /\ (data.isNone \/ "poses" \notin DOMAIN data.d
            \/ data.d["poses"] = << >>)) =>
        /\ response.status = 400
        /\ ~response.body.success
        /\ calls = 0

\* the request is answered 400, success = false, without a gateway call
Rejected ==
    /\ response.status = 400
    /\ ~response.body.success
    /\ calls = 0

\* the request reached the gateway, and a successful /analyze-angles
\* response echoes the angles and counts the form issues of the request
Processed ==
    /\ calls = 1
    /\ response.status # 400
    /\ (endpoint = "/analyze-angles" /\ response.body.success) =>
          /\ response.body.angles =
                (IF "angles" \in DOMAIN data.d THEN data.d["angles"] ELSE << >>)
          /\ response.body.form_issues_count =
                (IF "form_issues" \in DOMAIN data.d
                 THEN Len(data.d["form_issues"]) ELSE 0)

\* C14 as claimed: for /analyze-angles and /analyze-form-issue an absent
\* body is answered 400 with success = false, and every present body is
\* processed, all of its fields being optional; a successful /analyze-angles
\* response echoes the angles and reports the number of form issues.
C14_PresentBodyProcessed ==
    (pc = "done" /\ endpoint \in {"/analyze-angles", "/analyze-form-issue"}) =>
        IF data.isNone THEN Rejected ELSE Processed

\* C14 as amended: an absent body and a body that is the empty object are
\* answered 400 with success = false; a body with at least one key is
\* processed, each of its fields being optional; a successful
\* /analyze-angles response echoes the angles and reports the number of
\* form issues.
C14_NonEmptyBodyProcessed ==
    (pc = "done" /\ endpoint \in {"/analyze-angles", "/analyze-form-issue"}) =>
        IF data.isNone \/ DOMAIN data.d = {} THEN Rejected ELSE Processed

\* C14's case: a body with angles and two form issues, answered with the
\* angles and form_issues_count = 2
C14_Witness ==
    /\ pc = "done"
    /\ endpoint = "/analyze-angles"
    /\ response.status = 200
    /\ "form_issues" \in DOMAIN data.d
    /\ Len(data.d["form_issues"]) = 2
    /\ response.body.form_issues_count = 2
    /\ response.body.angles = data.d["angles"]
    /\ data.d["angles"] # << >>

\* the request passes the handler's validation: poses present and not
\* empty, resp. a body with at least one key
PassesValidation ==
    IF endpoint \in {"/analyze-poses", "/real-time-feedback"}
    THEN /\ ~data.isNone
         /\ "poses" \in DOMAIN data.d
         /\ data.d["poses"] # << >>
    ELSE ~data.isNone /\ DOMAIN data.d # {}

\* every landmark entry of the request has numeric x, y and z
RequestCoordinatesNumeric ==
    (~data.isNone /\ "poses" \in DOMAIN data.d) =>
        \A n \in 1..Len(data.d["poses"]) :
            \A i \in 1..Len(data.d["poses"][n].landmarks) :
                data.d["poses"][n].landmarks[i].data.xyz

RequestAngles == IF "angles" \in DOMAIN data.d THEN data.d["angles"] ELSE << >>

RequestIssues ==
    IF "form_issues" \in DOMAIN data.d THEN data.d["form_issues"] ELSE << >>

\* the joints whose angle is not None, in mapping order
GivenAngles == SelectSeq(RequestAngles, LAMBDA a : a.angle # JNull)

\* C16: in the angle-based prompt (and in the angle lines of the
\* issue-coaching prompt) a joint whose angle is None has no line, every
\* other joint, one of angle 0 included, has exactly one line, in mapping
\* order; the 'Detected Form Issues' block follows if and only if
\* form_issues is not empty, with a type/description line and a severity
\* line for each issue, in order.
C16_AngleAndIssueLines ==
    (pc \in {"calling", "done"} /\ PassesValidation
        /\ endpoint \in {"/analyze-angles", "/analyze-form-issue"}) =>
        LET lines == prompt.lines
            shown == SelectSeq(lines, LAMBDA l : l.kind = "angle")
            n == Len(GivenAngles)
            m == Len(RequestIssues)
        IN  /\ Len(shown) = n
            /\ \A i \in 1..n :
                  /\ shown[i].name = GivenAngles[i].joint
                  /\ shown[i].val = GivenAngles[i].angle.v
            /\ endpoint = "/analyze-angles" =>
                  /\ Len(lines) = n + (IF m = 0 THEN 0 ELSE 1 + 2 * m)
                  /\ \A i \in 1..n : lines[i] = shown[i]
                  /\ m > 0 => lines[n + 1].kind = "issues_header"
                  /\ \A k \in 1..m :
                        /\ lines[n + 2 * k].kind = "issue"
                        /\ lines[n + 2 * k].n = k
                        /\ lines[n + 2 * k + 1].kind = "severity"
                        /\ lines[n + 2 * k + 1].n = k
                        /\ RequestIssues[k] # << >> =>
                              /\ lines[n + 2 * k].name = RequestIssues[k].type
                              /\ lines[n + 2 * k].text =
                                    RequestIssues[k].description
                              /\ lines[n + 2 * k + 1].text =
                                    RequestIssues[k].severity

\* C16's case: knee None and hip 0 with two form issues: one angle line,
\* for hip with 0, then the block of the issues
C16_Witness ==
    /\ pc = "calling"
    /\ endpoint = "/analyze-angles"
    /\ Len(RequestAngles) = 2
    /\ RequestAngles[1].angle = JNull
    /\ RequestAngles[2].angle = JInt(0)
    /\ Len(RequestIssues) = 2
    /\ Len(prompt.lines) = 6
    /\ prompt.lines[1].kind = "angle"
    /\ prompt.lines[1].name = "hip"
    /\ prompt.lines[1].val = 0
    /\ prompt.lines[2].kind = "issues_header"

\* C17: in a successful /analyze-poses response, when the candidate was
\* parsed as JSON the analysis has no raw_response field.
C17_RawResponseOnlyOnFallback ==
    (Answered /\ endpoint = "/analyze-poses" /\ response.body.success
        /\ Loads(json_str).ok) =>
        K_raw_response \notin DOMAIN response.body.analysis.v

\* C18: when the candidate parses as JSON that is not an object, it is
\* treated as a parse failure: in every mode the response is the fallback
\* payload, a success, with all required fields and the raw text in the
\* designated field (its first 50 characters in cue).
C18_NonObjectIsParseFailure ==
    (Answered /\ Loads(json_str).ok /\ Loads(json_str).val.t # "dict") =>
        /\ CompletePayload
        /\ Payload.v[DesignatedField] =
              JStr(IF endpoint = "/analyze-form-issue" /\ Len(Raw) > 50
                   THEN SubSeq(Raw, 1, 50) ELSE Raw)

\* the indices where a fence marker starts in the trimmed text
FenceStarts == {i \in 0..Len(Raw) : OccursAt(Raw, Fence, i)}

\* C19: when the raw text holds a fence marker and no json-tagged one, the
\* candidate is the trimmed text between the end of the first fence marker
\* and the start of the last one: everything between the outermost pair
\* when there are two or more, the empty string when there is one.
C19_FirstToLastFence ==
    (Answered /\ FenceStarts # {} /\ ~Contains(Raw, JsonFence)) =>
        LET first == CHOOSE i \in FenceStarts : \A j \in FenceStarts : i <= j
            last == CHOOSE i \in FenceStarts : \A j \in FenceStarts : j <= i
        IN  /\ json_str = Strip(SubSeq(Raw, first + 4, last))
            /\ Cardinality(FenceStarts) = 1 => json_str = << >>

\* C19's case: three fence markers, the candidate runs from the first to
\* the last and holds the one between them
C19_Witness ==
    /\ Answered
    /\ ~Contains(Raw, JsonFence)
    /\ Cardinality(FenceStarts) = 3
    /\ Contains(json_str, Fence)
    /\ Contains(json_str, <<"{">>)

\* the indices of '{' and of '}' in the trimmed text
OpenBraces == {i \in 1..Len(Raw) : Raw[i] = "{"}

CloseBraces == {i \in 1..Len(Raw) : Raw[i] = "}"}

\* C20 as claimed: when the raw text has no fence marker and has both '{'
\* and '}', the candidate runs from the first '{' to the last '}'
\* inclusive, so it starts with '{' and ends with '}', wherever the two
\* characters are.
C20_BraceSpanAlways ==
    (Answered /\ FenceStarts = {} /\ OpenBraces # {} /\ CloseBraces # {}) =>
        /\ Len(json_str) >= 2
        /\ json_str[1] = "{"
        /\ json_str[Len(json_str)] = "}"
        /\ json_str = SubSeq(Raw, Min(OpenBraces), Max(CloseBraces))

\* C20 as amended: when the raw text has no fence marker and has both '{'
\* and '}', the candidate runs from the first '{' to the last '}'
\* inclusive when the first '{' comes before the last '}', whatever prose
\* is around them, and it is the empty string when the last '}' comes
\* before the first '{'.
C20_BraceSpan ==
    (Answered /\ FenceStarts = {} /\ OpenBraces # {} /\ CloseBraces # {}) =>
        IF Min(OpenBraces) < Max(CloseBraces)
        THEN /\ json_str = SubSeq(Raw, Min(OpenBraces), Max(CloseBraces))
             /\ json_str[1] = "{"
             /\ json_str[Len(json_str)] = "}"
        ELSE json_str = << >>

\* C20's case: an object with prose before and after it, the candidate is
\* the object alone
C20_Witness ==
    /\ Answered
    /\ FenceStarts = {}
    /\ Min(OpenBraces \cup {Len(Raw) + 1}) > 1
    /\ OpenBraces # {}
    /\ CloseBraces # {}
    /\ Max(CloseBraces \cup {0}) < Len(Raw)
    /\ Len(json_str) < Len(Raw)
    /\ Loads(json_str).ok
    /\ Loads(json_str).val.t = "dict"

\* C21: on the parse-fallback path of issue coaching the cue is the first
\* 50 characters of the trimmed raw text (the whole text when it has 50 or
\* fewer), so it never has more than 50; quick_fix and why_it_matters are
\* the fixed default strings; no other mode's fallback shortens the text.
C21_CueFirstFifty ==
    (Answered /\ ~Loads(json_str).ok) =>
        /\ response.status = 200
        /\ response.body.success
        /\ IF endpoint = "/analyze-form-issue"
           THEN LET coaching == response.body.coaching.v
                IN  /\ DOMAIN coaching = {K_quick_fix, K_why_it_matters, K_cue}
                    /\ coaching[K_quick_fix] = JStr(S_AdjustForm)
                    /\ coaching[K_why_it_matters] = JStr(S_ProperForm)
                    /\ coaching[K_cue].t = "str"
                    /\ Len(coaching[K_cue].v) <= 50
                    /\ Len(coaching[K_cue].v) = (IF Len(Raw) < 50 THEN Len(Raw) ELSE 50)
                    /\ \A i \in 1..Len(coaching[K_cue].v) :
                          coaching[K_cue].v[i] = Raw[i]
           ELSE /\ Payload.v[DesignatedField].t = "str"
                /\ Len(Payload.v[DesignatedField].v) = Len(Raw)
                /\ Payload.v[DesignatedField].v = Raw

\* C21's case: the long prose answer to /analyze-form-issue, answered with
\* the default strings and a cue of its first 50 characters
C21_Witness ==
    /\ Answered
    /\ endpoint = "/analyze-form-issue"
    /\ Raw = [i \in 1..ProseLen |-> "x"]
    /\ response.body.coaching.v[K_cue] = JStr([i \in 1..50 |-> "x"])
    /\ response.body.coaching.v[K_quick_fix] = JStr(S_AdjustForm)

\* C24: for /analyze-angles and /analyze-form-issue a body that is the
\* empty object is rejected exactly like an absent body: 400, success =
\* false, error 'No data provided', no gateway call; the defaults of
\* exercise_name, angles, form_issues and issue are applied only when the
\* body has at least one key.
C24_EmptyBodyRejected ==
    (pc = "done" /\ endpoint \in {"/analyze-angles", "/analyze-form-issue"}) =>
        IF data.isNone \/ DOMAIN data.d = {}
        THEN /\ response =
                  [status |-> 400,
                   body |-> [success |-> FALSE, error |-> "No data provided"]]
             /\ calls = 0
             /\ prompt = NoPrompt
        ELSE /\ calls = 1
             /\ "exercise_name" \notin DOMAIN data.d =>
                   prompt.exercise = JStr(<<"u", "n", "k", "n", "o", "w", "n">>)
             /\ (endpoint = "/analyze-angles" /\ response.body.success
                    /\ "angles" \notin DOMAIN data.d) =>
                   response.body.angles = << >>
             /\ (endpoint = "/analyze-angles" /\ response.body.success
                    /\ "form_issues" \notin DOMAIN data.d) =>
                   response.body.form_issues_count = 0
             /\ (endpoint = "/analyze-form-issue" /\ response.body.success
                    /\ "issue" \notin DOMAIN data.d) =>
                   response.body.issue = << >>

\* C24's case: the body {} sent to /analyze-form-issue, rejected with 400
C24_Witness ==
    /\ pc = "done"
    /\ endpoint = "/analyze-form-issue"
    /\ ~data.isNone
    /\ DOMAIN data.d = {}
    /\ response.status = 400
    /\ response.body.error = "No data provided"
    /\ calls = 0

\* frames and exercise names for the formatter: every one-person list of
\* FormatSpec, and the lists of several persons
FormatterInputs ==
    {<<(<<first>>), e>> : first \in Poses, e \in ExerciseNames}
    \cup {<<(<<first>> \o more), e>> :
             first \in MorePoses, more \in SeqsUpTo(MorePoses, MaxPersons - 1),
             e \in ExerciseNames}

\* the request reached analyze_exercise_form: analyze_poses did not reject it
FormAnalysed ==
    pc = "done" /\ endpoint = "/analyze-poses" /\ response.status = 200

\* C23: the two copies of the pipeline are behaviourally equivalent: for the
\* same request body and the same gateway outcome, real_time_feedback,
\* analyze_angles and analyze_form_issue of app.py return the status code
\* and body that the handlers of routes/analysis_routes.py return, having
\* called the gateway exactly when those do; analyze_exercise_form of app.py
\* returns the dict that the one of analyzers/pose_analyzer.py returns; and
\* format_pose_data of app.py returns, for every list of frames and every
\* exercise name of the bounded input set, what the one of
\* analyzers/pose_analyzer.py returns
C23_CopiesEquivalent ==
    /\ pc = "done" /\ endpoint = "/real-time-feedback"
        => /\ response = routes_real_time_feedback(data, gateway).response
           /\ (calls = 1) = routes_real_time_feedback(data, gateway).called
    /\ pc = "done" /\ endpoint = "/analyze-angles"
        => /\ response = routes_analyze_angles(data, gateway).response
           /\ (calls = 1) = routes_analyze_angles(data, gateway).called
    /\ pc = "done" /\ endpoint = "/analyze-form-issue"
        => /\ response = routes_analyze_form_issue(data, gateway).response
           /\ (calls = 1) = routes_analyze_form_issue(data, gateway).called
    /\ FormAnalysed
        => response.body =
               pa_analyze_exercise_form(data.d["poses"],
                                        Get(data.d, "exercise", JNull), gateway)
    /\ pc \in {"calling", "done"} /\ ~data.isNone /\ "poses" \in DOMAIN data.d
        => app_format_pose_data(data.d["poses"], Get(data.d, "exercise", JNull))
           = format_pose_data(data.d["poses"], Get(data.d, "exercise", JNull))
    /\ pc = "idle"
        => \A in \in FormatterInputs :
              app_format_pose_data(in[1], in[2]) = format_pose_data(in[1], in[2])

\* a reply of /analyze-form-issue that went through the fallback with a text
\* longer than the cue, and is the reply of the other copy
C23_Witness ==
    /\ Answered
    /\ endpoint = "/analyze-form-issue"
    /\ ~Loads(json_str).ok
    /\ Len(Strip(gateway.text)) > 50
    /\ response = routes_analyze_form_issue(data, gateway).response

\* the worker threads
Threads == 1..MaxRequests

\* C22: requests are isolated.  Under every interleaving of the threads'
\* steps the exercise-landmark table and the confidence threshold keep the
\* values of the configuration, a step of one thread changes nothing of
\* another thread and nothing shared, and the response of a finished request
\* is what its handler returns for that request's own body and the outcome
\* of that request's own gateway call
C22_RequestsIsolated ==
    /\ [](shared = ModuleState)
    /\ [](\A r \in Threads :
            threads[r].pc = "done"
            => threads[r].response
               = Serve(threads[r].endpoint, threads[r].request,
                       threads[r].gateway))
    /\ [][/\ shared' = shared
          /\ \A r \in Threads :
                threads'[r] # threads[r]
                => \A q \in Threads \ {r} : threads'[q] = threads[q]]_vars

\* two requests served at once, of different routes, bodies and gateway
\* texts, both answered, each with the response of its own handler
C22_Witness ==
    /\ threads[1].pc = "done" /\ threads[2].pc = "done"
    /\ threads[1].endpoint = "/real-time-feedback"
    /\ threads[2].endpoint = "/analyze-form-issue"
    /\ ~threads[1].gateway.raised /\ ~threads[2].gateway.raised
    /\ threads[1].gateway.text # threads[2].gateway.text
    /\ threads[1].response.status = 200 /\ threads[2].response.status = 200
    /\ threads[1].response # threads[2].response
    /\ threads[2].response
       = routes_analyze_form_issue(threads[2].request, threads[2].gateway).response

=========================================================================
